---- MODULE Spec2Model ----
(***************************************************************************)
(* The codeword success-probability engine of recurrent-csd                *)
(* (src/src/csd/engine.py, src/src/csd/codeword.py), the optimization      *)
(* driver around it (src/src/csd/csd.py) and the parallel driver            *)
(* (src/examples/parallel_experiments.py).                                  *)
(*                                                                         *)
(* Conventions.  Python lists are sequences; Python's 0-based positions    *)
(* become 1-based positions (only the positions shift, photon counts do    *)
(* not).  Amplitudes are integers: the word of a codeword holds alpha or   *)
(* -alpha.  A probability is an exact fraction [num, den] with den > 0.    *)
(***************************************************************************)
EXTENDS Integers, Sequences, FiniteSets, TLC

\* ---------------------------------------------------------------- bounds
MaxSize == 2
MaxCutoff == 3
MaxShots == 2
MassUnits == 1

\* amplitudes the codewords are built with (positive scales)
Alphas == {1, 2}

\* ------------------------------------------------------------ codeword.py
A == 1
MINUS_A == -1

\* CodeWord.__init__ with a word supplied: the word is kept as given.
CodeWordInitScaled(size, alpha_value, word) ==
    [alpha |-> alpha_value, word |-> [i \in 1..Len(word) |-> alpha_value * word[i]]]

CodeWordInit(size, alpha_value, word) ==
    [alpha |-> alpha_value, word |-> word]

\* _create_word: every outcome of word_size independent draws from samples
CreateWord(samples, word_size) == [1..word_size -> samples]

\* _create_input_word: alpha_value * np.array(word)
CreateInputWord(word, alpha_value) == [i \in 1..Len(word) |-> alpha_value * word[i]]

\* _create_random_word: the set of words the random constructor can draw
CreateRandomWord(word_size, alpha_value) ==
    {CreateInputWord(w, alpha_value) : w \in CreateWord({A, MINUS_A}, word_size)}

\* the codewords of size 1..MaxSize a caller can hand to the engine
CodeWords ==
    UNION {UNION {{CodeWordInit(n, a, w) : w \in CreateRandomWord(n, a)}
                  : a \in Alphas} : n \in 1..MaxSize}

Size(codeword) == Len(codeword.word)

\* word.count(alpha)
NumberAlphas(codeword) ==
    Cardinality({i \in 1..Len(codeword.word) : codeword.word[i] = codeword.alpha})

NumberMinusAlphas(codeword) == Size(codeword) - NumberAlphas(codeword)

ToList(codeword) == codeword.word

\* [0 if letter == alpha else -1 for letter in word]
ZeroList(codeword) ==
    [i \in 1..Len(codeword.word) |->
        IF codeword.word[i] = codeword.alpha THEN 0 ELSE -1]

\* np.where(word != alpha)[0]: the positions, ascending
RECURSIVE MinusIndicesFrom(_, _)
MinusIndicesFrom(codeword, i) ==
    IF i > Len(codeword.word) THEN <<>>
    ELSE IF codeword.word[i] # codeword.alpha
         THEN <<i>> \o MinusIndicesFrom(codeword, i + 1)
         ELSE MinusIndicesFrom(codeword, i + 1)

MinusIndices(codeword) == MinusIndicesFrom(codeword, 1)

\* CodeWord.__eq__: structural equality on word (other always has a word here)
CodeWordEq(self, other) == self.word = other.word

\* --------------------------------------------------------------- util.py
\* the sign-flipped codeword
Complement(codeword) ==
    CodeWordInit(Size(codeword), codeword.alpha,
                 [i \in 1..Len(codeword.word) |-> -codeword.word[i]])

\* generate_all_codewords_from_codeword: [c, complement(c)]
GenerateAllCodewordsFromCodeword(codeword) == <<codeword, Complement(codeword)>>

\* ------------------------------------------- engine.py: Fock-index generator
\* [i for i in range(cutoff_dim) if i > 0]
DimensionsFrom0Photons(cutoff_dim) == [i \in 1..cutoff_dim |-> i - 1]

DimensionsMoreThan0Photons(cutoff_dim) == [i \in 1..(cutoff_dim - 1) |-> i]

\* itertools.product(dims, repeat=r): all r-tuples, the last position varying fastest
RECURSIVE Product(_, _)
Product(dims, r) ==
    IF r = 0 THEN << <<>> >>
    ELSE LET prefixes == Product(dims, r - 1)
             d == Len(dims)
         IN  [k \in 1..(Len(prefixes) * d) |->
                 Append(prefixes[((k - 1) \div d) + 1], dims[((k - 1) % d) + 1])]

\* Python lists are objects: heap is the sequence of list objects alive, a
\* reference is a position in it.  list.copy() allocates a new object.
ListAlias(heap, ref) == [heap |-> heap, ref |-> ref]

ListCopy(heap, ref) == [heap |-> Append(heap, heap[ref]), ref |-> Len(heap) + 1]

\* for dimension, index in zip(minus_group, minus_indices): zero_list[index] = dimension
RECURSIVE AssignGroup(_, _, _, _)
AssignGroup(list, minus_group, minus_indices, j) ==
    IF j > Len(minus_group) \/ j > Len(minus_indices) THEN list
    ELSE AssignGroup([list EXCEPT ![minus_indices[j]] = minus_group[j]],
                     minus_group, minus_indices, j + 1)

\* the loop over minus_groups; zero_list is the object at reference zl, refs is
\* prob_indices (a list of references)
RECURSIVE ConvertLoop(_, _, _, _, _, _)
ConvertLoop(heap, zl, refs, minus_groups, minus_indices, g) ==
    IF g > Len(minus_groups) THEN [heap |-> heap, refs |-> refs]
    ELSE LET assigned == [heap EXCEPT ![zl] =
                              AssignGroup(heap[zl], minus_groups[g], minus_indices, 1)]
             copied == ListCopy(assigned, zl)
         IN  ConvertLoop(copied.heap, zl, Append(refs, copied.ref),
                         minus_groups, minus_indices, g + 1)

\* Engine._convert_word_to_fock_prob_indices: the lists the returned references hold
ConvertWordToFockProbIndices(codeword, cutoff_dim) ==
    IF NumberMinusAlphas(codeword) = 0
    THEN << [i \in 1..Size(codeword) |-> 0] >>
    ELSE LET dims == DimensionsMoreThan0Photons(cutoff_dim)
             first == ListCopy(<<ZeroList(codeword)>>, 1)
             groups == Product(dims, NumberMinusAlphas(codeword))
             done == ConvertLoop(first.heap, first.ref, <<>>, groups,
                                 MinusIndices(codeword), 1)
         IN  [k \in 1..Len(done.refs) |-> done.heap[done.refs[k]]]

\* ------------------------------------------------ engine.py: probabilities
Frac(n, d) == [num |-> n, den |-> d]

\* a >= b on fractions with positive denominators
FracGe(a, b) == a.num * b.den >= b.num * a.den

\* a > b on fractions with positive denominators
FracGt(a, b) == a.num * b.den > b.num * a.den

FracEq(a, b) == a.num * b.den = b.num * a.den

\* 1 - p
OneMinus(p) == Frac(p.den - p.num, p.den)

CodeWordSuccessProbability(codeword, success_probability) ==
    [codeword |-> codeword, success_probability |-> success_probability]

CodeWordIndices(codeword, indices) == [codeword |-> codeword, indices |-> indices]

\* the loop of Engine._max_probability_codeword
RECURSIVE MaxLoop(_, _, _)
MaxLoop(list, i, max) ==
    IF i > Len(list) THEN max
    ELSE MaxLoop(list, i + 1,
                 IF FracGt(list[i].success_probability, max.success_probability)
                 THEN list[i] ELSE max)

RECURSIVE MaxLoopGe(_, _, _)
MaxLoopGe(list, i, max) ==
    IF i > Len(list) THEN max
    ELSE MaxLoopGe(list, i + 1,
                   IF FracGe(list[i].success_probability, max.success_probability)
                   THEN list[i] ELSE max)

MaxProbabilityCodewordGe(codewords_sucess_probabilities) ==
    MaxLoopGe(codewords_sucess_probabilities, 1, codewords_sucess_probabilities[1])

\* Engine._max_probability_codeword
MaxProbabilityCodeword(codewords_sucess_probabilities) ==
    MaxLoop(codewords_sucess_probabilities, 1, codewords_sucess_probabilities[1])

\* the test of Engine._get_fock_prob_indices_from_modes that raises ValueError
SizeNotBelowCutoff(codeword, cutoff_dimension) == Size(codeword) >= cutoff_dimension

SizeExceedsCutoff(codeword, cutoff_dimension) == Size(codeword) > cutoff_dimension

\* Engine._get_fock_prob_indices_from_modes: what it raises, the hypotheses it
\* enumerated and the indices it built
GetFockProbIndicesFromModes(codeword, cutoff_dimension) ==
    IF SizeExceedsCutoff(codeword, cutoff_dimension)
    THEN [error |-> "ValueError", codewords |-> <<>>, indices |-> <<>>]
    ELSE LET codewords == GenerateAllCodewordsFromCodeword(codeword)
         IN  [error |-> "none",
              codewords |-> codewords,
              indices |-> [k \in 1..Len(codewords) |->
                              CodeWordIndices(codewords[k],
                                  ConvertWordToFockProbIndices(codewords[k],
                                                               cutoff_dimension))]]

\* The state a zero-shot run returns, over n modes truncated at D photons per
\* mode: MassUnits units of probability, each 1/MassUnits, unit i sitting on the
\* index tuple state[i], or on <<>> when it lies outside the truncated basis.
FockTuples(n, D) == [1..n -> 0..(D - 1)]

FockStates(n, D) == [1..MassUnits -> FockTuples(n, D) \cup {<<>>}]

\* state.fock_prob(indices), as a number of units
FockProb(state, fock_prob_indices) ==
    Cardinality({u \in 1..MassUnits : state[u] = fock_prob_indices})

RECURSIVE SumFrom(_, _, _)
SumFrom(state, list, k) ==
    IF k > Len(list) THEN 0
    ELSE FockProb(state, list[k]) + SumFrom(state, list, k + 1)

\* Engine._compute_fock_prob_one_word
ComputeFockProbOneWord(state, fock_prob_indices_one_word) ==
    Frac(SumFrom(state, fock_prob_indices_one_word, 1), MassUnits)

\* Engine._compute_fock_probabilities_for_all_codewords, given what
\* _get_fock_prob_indices_from_modes returned (it does not read the state)
ComputeFockProbabilitiesForAllCodewords(state, all_indices) ==
    [k \in 1..Len(all_indices) |->
        CodeWordSuccessProbability(all_indices[k].codeword,
            ComputeFockProbOneWord(state, all_indices[k].indices))]

\* sum([1 for read_value in samples if read_value == 0])
ZeroCountAsOne(read_values) ==
    Cardinality({i \in 1..Len(read_values) : read_values[i] = 1})

ZeroCount(read_values) ==
    Cardinality({i \in 1..Len(read_values) : read_values[i] = 0})

\* options['shots'] = 1 in _run_circuit_sampling
SamplingRunShotsBatched(shots) == shots

SamplingRunShots(shots) == 1

\* _run_circuit_probabilities leaving options['shots'] as it came
ProbabilitiesRunShotsKept(shots) == shots

\* options['shots'] = 0 in _run_circuit_probabilities
ProbabilitiesRunShots(shots) == 0

\* if self._engine.run_progs: (a non-empty list is true)
NeverReset(run_progs) == FALSE

NeedsReset(run_progs) == run_progs > 0

\* ------------------------------------------------------ the engine's state
VARIABLES
    cutoff_dim,             \* Engine._cutoff_dim
    run_progs,              \* len(self._engine.run_progs): programs run since the last reset
    options,                \* the caller's EngineRunOptions object
    pc,                     \* position of the engine call in progress
    shots,                  \* the local shots of _run_circuit_sampling
    samples,                \* the read values samples[0][0] collected so far
    run_calls,              \* the shots argument of every backend run of this call
    n_resets,               \* the backend resets of this call
    ever_run,               \* the backend handle has run at least once
    last_backend,           \* the last call made on the backend handle
    codewords,              \* the hypotheses the enumerator returned in this call
    all_codewords_indices,  \* the CodeWordIndices built in this call
    success_probabilities,  \* codewords_sucess_probabilities
    winner,                 \* what run_circuit_checking_measuring_type returned
    error,                  \* the exception the call raised
    handed                  \* the options object as its caller built it, and its calls

\* ------------------------------------------- the driver's and a word's state
VARIABLES
    csd,                    \* the fields of one CSD instance (self)
    frame,                  \* the locals and the position of the call in progress on it
    caller,                 \* what the last call handed back to its caller
    audit,                  \* history of the run, read by the properties only
    cw,                     \* one CodeWord instance and what its caller asked for
    binding,                \* one call of Engine._parse_circuit_parameters
    fock                    \* one call of Engine._get_fock_prob_indices_from_modes

engine_vars == <<cutoff_dim, run_progs, options, pc, shots, samples, run_calls, n_resets,
                 ever_run, last_backend, codewords, all_codewords_indices,
                 success_probabilities, winner, error, handed>>

csd_vars == <<csd, frame, caller, audit>>

vars == <<engine_vars, csd_vars, cw, binding, fock>>

MeasuringTypes == {"sampling", "probabilities"}

NoCodeWord == [alpha |-> 0, word |-> <<>>]

NoOptions ==
    [shots |-> 0, measuring_type |-> "none", output_codeword |-> NoCodeWord,
     input_codeword |-> NoCodeWord, params |-> <<>>]

NoHanded == [options |-> NoOptions, calls |-> 0]

\* the calls one options object is handed to
MaxCalls == 2

\* the input codewords and the parameter vectors of the run options: the
\* engine passes them on to the backend and reads nothing else from them
EngineInputCodeWords == {c \in CodeWords : Size(c) = 1 /\ c.alpha = 1}

EngineParams == {<<>>, <<1>>}

NoWinner == CodeWordSuccessProbability(NoCodeWord, Frac(0, 1))

\* the run options a caller can build
EngineRunOptions ==
    [shots : 0..MaxShots, measuring_type : MeasuringTypes, output_codeword : CodeWords,
     input_codeword : EngineInputCodeWords, params : EngineParams]

\* Engine.__init__: a backend handle that has run nothing
EngineInit ==
    /\ cutoff_dim \in 1..MaxCutoff
    /\ run_progs = 0
    /\ options = NoOptions
    /\ pc = "idle"
    /\ shots = 0
    /\ samples = <<>>
    /\ run_calls = <<>>
    /\ n_resets = 0
    /\ ever_run = FALSE
    /\ last_backend = "none"
    /\ codewords = <<>>
    /\ all_codewords_indices = <<>>
    /\ success_probabilities = <<>>
    /\ winner = NoWinner
    /\ error = "none"
    /\ handed = NoHanded

\* Engine.run_circuit_checking_measuring_type up to the first _run_circuit:
\* the branch on measuring_type and the overwrite of options['shots']
Enter(opts) ==
    /\ samples' = <<>>
    /\ run_calls' = <<>>
    /\ n_resets' = 0
    /\ codewords' = <<>>
    /\ all_codewords_indices' = <<>>
    /\ success_probabilities' = <<>>
    /\ winner' = NoWinner
    /\ error' = "none"
    /\ IF opts.measuring_type = "sampling"
       THEN /\ shots' = opts.shots
            /\ options' = [opts EXCEPT !.shots = SamplingRunShots(opts.shots)]
            /\ pc' = IF opts.shots > 0 THEN "run_circuit" ELSE "sampling_sum"
       ELSE /\ shots' = 0
            /\ options' = [opts EXCEPT !.shots = ProbabilitiesRunShots(opts.shots)]
            /\ pc' = "run_circuit"
    /\ UNCHANGED <<cutoff_dim, run_progs, ever_run, last_backend>>

\* a call with a freshly built options object
Call ==
    /\ pc = "idle"
    /\ \E opts \in EngineRunOptions :
        /\ Enter(opts)
        /\ handed' = [options |-> opts, calls |-> 1]

\* a call that hands in the options object of the previous call again
CallAgain ==
    /\ pc \in {"returned", "raised"}
    /\ handed.calls < MaxCalls
    /\ Enter(options)
    /\ handed' = [handed EXCEPT !.calls = @ + 1]

\* the caller takes the result (or the exception) and drops the options object;
\* the locals of the call are gone, the engine and its backend handle stay
Return ==
    /\ pc \in {"returned", "raised"}
    /\ pc' = "idle"
    /\ options' = NoOptions
    /\ handed' = NoHanded
    /\ shots' = 0
    /\ samples' = <<>>
    /\ run_calls' = <<>>
    /\ n_resets' = 0
    /\ codewords' = <<>>
    /\ all_codewords_indices' = <<>>
    /\ success_probabilities' = <<>>
    /\ winner' = NoWinner
    /\ error' = "none"
    /\ UNCHANGED <<cutoff_dim, run_progs, ever_run, last_backend>>

\* Engine._run_circuit, first half: reset the engine if it has already been executed
RunCircuitReset ==
    /\ pc = "run_circuit"
    /\ IF NeedsReset(run_progs)
       THEN /\ run_progs' = 0
            /\ n_resets' = n_resets + 1
            /\ last_backend' = "reset"
       ELSE UNCHANGED <<run_progs, n_resets, last_backend>>
    /\ pc' = "engine_run"
    /\ UNCHANGED <<cutoff_dim, handed, options, shots, samples, run_calls, ever_run, codewords,
                   all_codewords_indices, success_probabilities, winner, error>>

\* what every self._engine.run does to the backend handle
BackendRun ==
    /\ run_progs' = run_progs + 1
    /\ run_calls' = Append(run_calls, options.shots)
    /\ ever_run' = TRUE
    /\ last_backend' = "run"

\* Engine._run_circuit, second half, inside the list comprehension of
\* _run_circuit_sampling: one run, whose mode-0 photon count is read
EngineRunSample ==
    /\ pc = "engine_run"
    /\ options.measuring_type = "sampling"
    /\ BackendRun
    /\ \E read_value \in 0..(cutoff_dim - 1) :
           samples' = Append(samples, read_value)
    /\ pc' = IF Len(samples) + 1 < shots THEN "run_circuit" ELSE "sampling_sum"
    /\ UNCHANGED <<cutoff_dim, handed, options, shots, n_resets, codewords,
                   all_codewords_indices, success_probabilities, winner, error>>

\* _run_circuit_sampling after the runs: zero_prob, the two hypotheses, and the
\* selection of run_circuit_checking_measuring_type
SamplingSum ==
    /\ pc = "sampling_sum"
    /\ IF shots = 0
       THEN /\ error' = "ZeroDivisionError"
            /\ pc' = "raised"
            /\ UNCHANGED <<codewords, success_probabilities, winner>>
       ELSE LET zero_prob == Frac(ZeroCount(samples), shots)
                all == GenerateAllCodewordsFromCodeword(options.output_codeword)
                probs == <<CodeWordSuccessProbability(all[1], zero_prob),
                           CodeWordSuccessProbability(all[2], OneMinus(zero_prob))>>
            IN  /\ codewords' = all
                /\ success_probabilities' = probs
                /\ winner' = MaxProbabilityCodeword(probs)
                /\ pc' = "returned"
                /\ error' = "none"
    /\ UNCHANGED <<cutoff_dim, handed, run_progs, options, shots, samples, run_calls, n_resets,
                   ever_run, last_backend, all_codewords_indices>>

\* Engine._run_circuit, second half, inside _run_circuit_probabilities: the
\* zero-shot run, the Fock probabilities of the hypotheses and the selection
EngineRunProbabilities ==
    /\ pc = "engine_run"
    /\ options.measuring_type = "probabilities"
    /\ BackendRun
    /\ LET got == GetFockProbIndicesFromModes(options.output_codeword, cutoff_dim)
       IN  /\ codewords' = got.codewords
           /\ all_codewords_indices' = got.indices
           /\ error' = got.error
           /\ IF got.error = "none"
              THEN \E state \in FockStates(Size(options.output_codeword), cutoff_dim) :
                       LET probs == ComputeFockProbabilitiesForAllCodewords(
                                        state, all_codewords_indices')
                       IN  /\ success_probabilities' = probs
                           /\ winner' = MaxProbabilityCodeword(probs)
                           /\ pc' = "returned"
              ELSE /\ UNCHANGED <<success_probabilities, winner>>
                   /\ pc' = "raised"
    /\ UNCHANGED <<cutoff_dim, handed, options, shots, samples, n_resets>>

\* ------------------------------------------------- the driver's values
\* amplitudes of the driver are counted in thousandths: 705 is 0.705
MaxAlphas == 2

MaxSteps == 2

MaxBatch == 2

MaxEvals == 2

MaxModes == 2

MaxExecutes == 2

\* a per-sample probability is a multiple of 1/ProbUnits
ProbUnits == 1

DEFAULT_ALPHA == 700

InputAlphas == {100, 705}

\* Python's None where a dictionary is expected: no dictionary has this key
None == [None |-> TRUE]

EmptyDict == [k \in {} |-> 0]

\* every dictionary with some of the keys, each bound to one of the values
Dicts(keys, values) == UNION {[S -> values] : S \in SUBSET keys}

\* not d, for a dictionary or None
Falsy(d) == d = None \/ DOMAIN d = {}

\* CSD._default_architecture
DefaultArchitecture ==
    [number_qumodes |-> 1, number_layers |-> 1, displacement |-> TRUE,
     squeezing |-> FALSE, interferometer |-> FALSE]

\* CSD._set_architecture: the five keys it knows are copied over the
\* defaults, any other key of the caller's dictionary is not looked at
SetArchitecture(architecture) ==
    IF architecture = None
    THEN DefaultArchitecture
    ELSE [k \in DOMAIN DefaultArchitecture |->
            IF k \in DOMAIN architecture THEN architecture[k]
            ELSE DefaultArchitecture[k]]

\* the architecture dictionaries a caller writes: the mode count under the
\* key of csd.py or under the key of parallel_experiments.launch_execution
Architectures ==
    {a \in Dicts({"number_qumodes", "number_modes", "number_layers"}, 1..MaxModes) :
        ~({"number_qumodes", "number_modes"} \subseteq DOMAIN a)}

\* the mode and layer counts the caller's dictionary asks for
RequestedModes(a) ==
    IF a = None THEN 1
    ELSE IF "number_qumodes" \in DOMAIN a THEN a["number_qumodes"]
    ELSE IF "number_modes" \in DOMAIN a THEN a["number_modes"]
    ELSE 1

RequestedLayers(a) ==
    IF a = None THEN 1
    ELSE IF "number_layers" \in DOMAIN a THEN a["number_layers"]
    ELSE 1

\* the CSDConfiguration dictionaries a caller passes to CSD(...): the
\* largest step count and batch size, so that a smaller one is known to come
\* from the run configuration; architecture None is
\* csd_config.get('architecture') without the key
CSDConfigurations ==
    [steps : {MaxSteps}, batch_size : {MaxBatch},
     architecture : Architectures \cup {None}]

Backends == {"fock", "gaussian", "tf"}

\* a member of the Backends enumeration other than the three above
OtherBackends == {"bosonic"}

\* the lists of at most n amplitudes
AlphaLists(n) == UNION {[1..k -> InputAlphas] : k \in 0..n}

\* the RunConfiguration dictionaries a caller passes to execute: backend
\* and measuring_type always, alphas, steps and batch_size when wanted
RunConfigurations ==
    {base @@ alphas @@ steps @@ batch_size :
        base \in [backend : Backends \cup OtherBackends, measuring_type : MeasuringTypes],
        alphas \in {EmptyDict} \cup {[alphas |-> l] : l \in AlphaLists(MaxAlphas)},
        steps \in {EmptyDict} \cup {[steps |-> n] : n \in 0..(MaxSteps - 1)},
        batch_size \in {EmptyDict} \cup {[batch_size |-> n] : n \in 0..(MaxBatch - 1)}}

\* an exact probability that was never assigned
NoPErr == Frac(0, 0)

\* the dictionary of CSD._init_result before any record, and no dictionary
NoResult ==
    [alphas |-> <<>>, batches |-> <<>>, opt_params |-> <<>>, p_err |-> <<>>,
     p_succ |-> <<>>, backend |-> "none", measuring_type |-> "none",
     plot_label |-> "none"]

NoPhotodetectorProbabilities == [prob_click |-> <<>>, prob_no_click |-> <<>>]

\* no CSD instance: the fields before CSD.__init__
NoCSD ==
    [architecture |-> None, steps |-> 0, batch_size |-> 0, run_configuration |-> None,
     alphas |-> <<>>, circuit |-> 0, engine |-> 0, alpha_value |-> 0, batch |-> <<>>,
     current_p_err |-> NoPErr, probability_results |-> <<>>, sampling_results |-> <<>>]

\* no call of execute_all_backends_and_measuring_types in progress
NoOuter ==
    [active |-> FALSE, alphas |-> <<>>, backends |-> <<>>, phases |-> <<>>,
     phase |-> 0, index |-> 0, collected |-> <<>>]

NoFrame ==
    [pc |-> "unbuilt", learning_steps |-> 0, alpha_index |-> 0, step |-> 0,
     optimized_parameters |-> 0, n_evals |-> 0,
     photodetector_prob |-> NoPhotodetectorProbabilities, result |-> NoResult,
     outer |-> NoOuter]

NoCaller ==
    [call |-> "none", error |-> "none", raised_in |-> "none", returned |-> NoResult,
     returned_list |-> <<>>]

NoAudit ==
    [requested_modes |-> 0, requested_layers |-> 0, executes |-> 0,
     circuits |-> 0, engines |-> 0, optimize_calls |-> 0, records_at_abort |-> 0,
     collected_at_abort |-> <<>>, engine_invoked |-> FALSE,
     alphas_started |-> 0, engine_use |-> {}, p_err_written |-> <<0, 0>>,
     carried |-> FALSE, all_calls |-> <<>>,
     cost_log |-> [value |-> NoPErr, batch |-> <<>>, at |-> <<0, 0, 0>>,
                   lowest |-> NoPErr, drawn |-> <<>>, drawn_step |-> 0]]

\* no CodeWord instance
NoWord ==
    [alpha |-> 0, word |-> <<>>, size |-> 0, how |-> "none", original |-> <<>>,
     last |-> <<>>]

\* no call of _parse_circuit_parameters yet: no circuit, no options, no dict
NoBinding ==
    [pc |-> "none", parameters |-> <<>>, input_codeword |-> NoCodeWord,
     params |-> <<>>, args |-> EmptyDict]

\* no call of _get_fock_prob_indices_from_modes yet
NoFock ==
    [pc |-> "none", codeword |-> NoCodeWord, how |-> "none", cutoff_dimension |-> 0,
     got |-> [error |-> "none", codewords |-> <<>>, indices |-> <<>>]]

\* an engine on its own: no driver and no separate word exist
Init ==
    /\ EngineInit
    /\ csd = NoCSD
    /\ frame = NoFrame
    /\ caller = NoCaller
    /\ audit = NoAudit
    /\ cw = NoWord
    /\ binding = NoBinding
    /\ fock = NoFock

Next ==
    \/ Call /\ UNCHANGED <<csd_vars, cw, binding, fock>>
    \/ CallAgain /\ UNCHANGED <<csd_vars, cw, binding, fock>>
    \/ Return /\ UNCHANGED <<csd_vars, cw, binding, fock>>
    \/ RunCircuitReset /\ UNCHANGED <<csd_vars, cw, binding, fock>>
    \/ EngineRunSample /\ UNCHANGED <<csd_vars, cw, binding, fock>>
    \/ SamplingSum /\ UNCHANGED <<csd_vars, cw, binding, fock>>
    \/ EngineRunProbabilities /\ UNCHANGED <<csd_vars, cw, binding, fock>>

Spec == Init /\ [][Next]_vars

\* ---------------------------------------------------------------- claims
RECURSIVE Pow(_, _)
Pow(b, e) == IF e = 0 THEN 1 ELSE b * Pow(b, e - 1)

\* the positions of a hypothesis that do not hold the reference +alpha
NonReference(h) == {i \in 1..Len(h.word) : h.word[i] # h.alpha}

\* the index tuples the contract asks for: 0 on the reference positions, any
\* count in 1..D-1 on the others
ContractTuples(h, D) ==
    {t \in [1..Len(h.word) -> 0..(D - 1)] :
        \A i \in 1..Len(h.word) : (t[i] = 0) <=> (i \notin NonReference(h))}

\* a probability-mode call has come back or raised
ProbabilitiesDone ==
    pc \in {"returned", "raised"} /\ options.measuring_type = "probabilities"

\* a sampling-mode call has come back or raised
SamplingDone ==
    pc \in {"returned", "raised"} /\ options.measuring_type = "sampling"

\* C1: for every hypothesis with m non-reference positions and cutoff D >= size,
\* the generator returns exactly (D-1)^m tuples when m > 0 and exactly the one
\* all-zero tuple of length n when m = 0.
C1_IndexCount ==
    \A k \in 1..Len(all_codewords_indices) :
        LET h == all_codewords_indices[k].codeword
            indices == all_codewords_indices[k].indices
            m == Cardinality(NonReference(h))
        IN  IF m > 0
            THEN Len(indices) = Pow(cutoff_dim - 1, m)
            ELSE indices = << [i \in 1..Len(h.word) |-> 0] >>

\* a hypothesis with two non-reference positions got (3-1)^2 = 4 tuples
C1_Witness ==
    /\ cutoff_dim = 3
    /\ \E k \in 1..Len(all_codewords_indices) :
           /\ Cardinality(NonReference(all_codewords_indices[k].codeword)) = 2
           /\ Len(all_codewords_indices[k].indices) = 4
    /\ \E k \in 1..Len(all_codewords_indices) :
           /\ NonReference(all_codewords_indices[k].codeword) = {}
           /\ Len(all_codewords_indices[k].indices) = 1

\* C2: every produced tuple has length n, 0 exactly on the reference positions
\* and a count in 1..D-1 elsewhere; the produced tuples are pairwise distinct
\* and together are the whole Cartesian product over the non-reference positions.
C2_IndexTuples ==
    \A k \in 1..Len(all_codewords_indices) :
        LET h == all_codewords_indices[k].codeword
            indices == all_codewords_indices[k].indices
        IN  /\ \A j \in 1..Len(indices) :
                   /\ Len(indices[j]) = Len(h.word)
                   /\ \A i \in 1..Len(h.word) :
                          IF h.word[i] = h.alpha
                          THEN indices[j][i] = 0
                          ELSE indices[j][i] \in 1..(cutoff_dim - 1)
            /\ \A i, j \in 1..Len(indices) : i # j => indices[i] # indices[j]
            /\ {indices[j] : j \in 1..Len(indices)} = ContractTuples(h, cutoff_dim)

\* a hypothesis with a non-reference position whose list holds several tuples
C2_Witness ==
    \E k \in 1..Len(all_codewords_indices) :
        /\ NonReference(all_codewords_indices[k].codeword) # {}
        /\ Len(all_codewords_indices[k].indices) >= 2

\* C3: _get_fock_prob_indices_from_modes raises ValueError exactly when the
\* codeword size exceeds the cutoff dimension, with no hypothesis enumerated and
\* no index tuple built; for size <= cutoff (size = cutoff included) it raises
\* nothing and builds the indices of both hypotheses.
C3_CutoffValidation ==
    ProbabilitiesDone =>
        LET n == Len(options.output_codeword.word)
        IN  /\ (error = "ValueError") <=> (n > cutoff_dim)
            /\ (pc = "raised") <=> (n > cutoff_dim)
            /\ n > cutoff_dim => codewords = <<>> /\ all_codewords_indices = <<>>
            /\ n <= cutoff_dim =>
                   /\ error = "none"
                   /\ Len(codewords) = 2
                   /\ Len(all_codewords_indices) = 2

\* a call whose codeword is one longer than the cutoff has raised
C3_Witness ==
    /\ ProbabilitiesDone
    /\ Len(options.output_codeword.word) = cutoff_dim + 1
    /\ pc = "raised"
    /\ error = "ValueError"

\* the boundary: size = cutoff comes back with a result
C3_BoundaryReached ==
    /\ ProbabilitiesDone
    /\ Len(options.output_codeword.word) = cutoff_dim
    /\ pc = "returned"

C5_MaxFirst ==
    pc = "returned" =>
        LET l == success_probabilities
            IsMax(i) == \A j \in 1..Len(l) :
                            FracGe(l[i].success_probability, l[j].success_probability)
        IN  /\ \E i \in 1..Len(l) :
                   /\ winner = l[i]
                   /\ IsMax(i)
                   /\ \A j \in 1..(i - 1) : ~IsMax(j)
            /\ FracEq(l[1].success_probability, l[2].success_probability)
                   => CodeWordEq(winner.codeword, options.output_codeword)

\* an exact tie at probability 1/2 each, won by the reference codeword
C5_Witness ==
    /\ pc = "returned"
    /\ success_probabilities[1].success_probability.num > 0
    /\ FracEq(success_probabilities[1].success_probability,
              success_probabilities[2].success_probability)
    /\ winner.codeword = options.output_codeword
    /\ success_probabilities[2].codeword # options.output_codeword

\* the second hypothesis strictly greater, and returned
C5_SecondWins ==
    /\ pc = "returned"
    /\ FracGt(success_probabilities[2].success_probability,
              success_probabilities[1].success_probability)
    /\ winner = success_probabilities[2]

C7_SamplingProbabilities ==
    (pc = "returned" /\ options.measuring_type = "sampling") =>
        LET S == shots
            k == Cardinality({i \in 1..Len(samples) : samples[i] = 0})
            c == options.output_codeword
        IN  /\ S > 0
            /\ Len(samples) = S
            /\ k \in 0..S
            /\ Len(success_probabilities) = 2
            /\ success_probabilities[1].codeword = c
            /\ success_probabilities[1].success_probability = Frac(k, S)
            /\ success_probabilities[2].codeword.word =
                   [i \in 1..Len(c.word) |-> -c.word[i]]
            /\ success_probabilities[2].success_probability = Frac(S - k, S)

\* two shots, one of which read zero photons and one did not
C7_Witness ==
    /\ pc = "returned"
    /\ options.measuring_type = "sampling"
    /\ shots = 2
    /\ samples[1] = 0
    /\ samples[2] # 0
    /\ success_probabilities[1].success_probability = Frac(1, 2)

\* C8: a sampling-mode call with shots = 0 is rejected with a validation error
\* (ValueError), not with an arithmetic error and not with a result, and no
\* simulation run is performed for it.
C8_ZeroShotsValidationError ==
    (SamplingDone /\ shots = 0) =>
        /\ pc = "raised"
        /\ error = "ValueError"
        /\ run_calls = <<>>

\* what the code does on shots = 0: no run, and the division raises
C8_ZeroShotsRaisesArithmetic ==
    (SamplingDone /\ shots = 0) =>
        /\ pc = "raised"
        /\ error = "ZeroDivisionError"
        /\ run_calls = <<>>

\* C9: a sampling-mode call with shots = S invokes the backend exactly S times,
\* each time with shots = 1; an exact-probability call invokes it exactly once,
\* with shots = 0.
C9_RunCount ==
    /\ SamplingDone => run_calls = [i \in 1..shots |-> 1]
    /\ ProbabilitiesDone => run_calls = <<0>>
    /\ (pc \in {"run_circuit", "engine_run", "sampling_sum"}
           /\ options.measuring_type = "sampling")
          => /\ Len(run_calls) <= shots
             /\ \A i \in 1..Len(run_calls) : run_calls[i] = 1

\* a sampling call of two shots has made its two single-shot runs
C9_Witness ==
    /\ SamplingDone
    /\ shots = 2
    /\ run_calls = <<1, 1>>

\* C10: the backend is never run while its handle is DIRTY (run_progs > 0);
\* every run after the first ever is immediately preceded by a reset; no reset
\* is issued on a handle that has never run.
C10_ResetBeforeRun ==
    [][/\ (Len(run_calls') = Len(run_calls) + 1) =>
              /\ run_progs = 0
              /\ ever_run => last_backend = "reset"
       /\ (n_resets' = n_resets + 1) => ever_run
       /\ (last_backend' # last_backend) =>
              \/ Len(run_calls') = Len(run_calls) + 1
              \/ n_resets' = n_resets + 1]_vars

\* inside one sampling call: a run, a reset, and the second run on the clean handle
C10_Witness ==
    /\ options.measuring_type = "sampling"
    /\ Len(run_calls) = 2
    /\ n_resets >= 1
    /\ last_backend = "run"
    /\ run_progs = 1


\* ------------------------------------------------------------- the driver
\* CSD._backend_is_tf
BackendIsTf(self) == self.run_configuration.backend = "tf"

\* _create_circuit without its second check
CreateCircuitUnchecked(self) ==
    IF self.run_configuration = None THEN "ValueError" ELSE "none"

\* CSD._create_circuit: the exception it raises, "none" when it builds one
CreateCircuit(self) ==
    IF self.run_configuration = None THEN "ValueError"
    ELSE IF Falsy(self.architecture) THEN "ValueError"
    ELSE "none"

\* CSD._create_engine: the exception it raises, "none" when it builds one
CreateEngine(self) ==
    IF self.run_configuration = None THEN "ValueError" ELSE "none"

\* CSD._set_learning_steps: the exception it raises, and the value it returns
SetLearningStepsError(self) ==
    IF self.run_configuration = None THEN "ValueError" ELSE "none"

\* _set_learning_steps without its test of the backend
SetLearningStepsAnyBackend(self) ==
    IF "steps" \in DOMAIN self.run_configuration
    THEN self.run_configuration.steps
    ELSE self.steps

SetLearningSteps(self) ==
    IF BackendIsTf(self)
    THEN IF "steps" \in DOMAIN self.run_configuration
         THEN self.run_configuration.steps
         ELSE self.steps
    ELSE 1

\* _set_plot_label with the sampling label of TensorFlow written as its
\* probability label
SetPlotLabelRepeated(backend, measuring_type) ==
    IF backend = "fock" /\ measuring_type = "probabilities" THEN "pFockProb(a)"
    ELSE IF backend = "gaussian" /\ measuring_type = "probabilities" THEN "pGausProb(a)"
    ELSE IF backend = "tf" THEN "pTFProb(a)"
    ELSE IF backend = "fock" /\ measuring_type = "sampling" THEN "pFockSampl(a)"
    ELSE IF backend = "gaussian" /\ measuring_type = "sampling" THEN "pGausSampl(a)"
    ELSE "ValueError"

\* _set_plot_label of parallel_experiments.py
ParallelSetPlotLabel(backend, measuring_type) ==
    IF backend = "fock" /\ measuring_type = "probabilities" THEN "pFockProb(a)"
    ELSE IF backend = "gaussian" /\ measuring_type = "probabilities" THEN "pGausProb(a)"
    ELSE IF backend = "tf" /\ measuring_type = "probabilities" THEN "pTFProb(a)"
    ELSE IF backend = "fock" /\ measuring_type = "sampling" THEN "pFockSampl(a)"
    ELSE IF backend = "tf" /\ measuring_type = "sampling" THEN "pTFSampl(a)"
    ELSE IF backend = "gaussian" /\ measuring_type = "sampling" THEN "pGausSampl(a)"
    ELSE "ValueError"

\* CSD._set_plot_label: the label of the pair, "ValueError" when it raises
SetPlotLabel(backend, measuring_type) ==
    IF backend = "fock" /\ measuring_type = "probabilities" THEN "pFockProb(a)"
    ELSE IF backend = "gaussian" /\ measuring_type = "probabilities" THEN "pGausProb(a)"
    ELSE IF backend = "tf" /\ measuring_type = "probabilities" THEN "pTFProb(a)"
    ELSE IF backend = "fock" /\ measuring_type = "sampling" THEN "pFockSampl(a)"
    ELSE IF backend = "tf" /\ measuring_type = "sampling" THEN "pTFSampl(a)"
    ELSE IF backend = "gaussian" /\ measuring_type = "sampling" THEN "pGausSampl(a)"
    ELSE "ValueError"

\* CSD._init_result
InitResult(self) ==
    [NoResult EXCEPT
        !.backend = self.run_configuration.backend,
        !.measuring_type = self.run_configuration.measuring_type,
        !.plot_label = SetPlotLabel(self.run_configuration.backend,
                                    self.run_configuration.measuring_type)]

\* the checks at the head of CSD.execute
ExecuteValidation(self) ==
    IF Falsy(self.architecture) THEN "ValueError"
    ELSE IF self.architecture.number_layers # 1 \/ self.architecture.number_qumodes # 1
    THEN "ValueError"
    ELSE "none"

\* CSD.execute: the three assignments from the caller's configuration
ExecuteConfigure(self, configuration) ==
    [self EXCEPT
        !.run_configuration = configuration,
        !.batch_size = IF "batch_size" \in DOMAIN configuration
                       THEN configuration.batch_size ELSE @,
        !.alphas = IF "alphas" \in DOMAIN configuration
                   THEN configuration.alphas ELSE <<DEFAULT_ALPHA>>]

\* an exception leaves the call: its locals are gone, the caller holds the
\* exception and nothing else
Raise(call, exception, raised_in) ==
    /\ frame' = [NoFrame EXCEPT !.pc = "ready"]
    /\ caller' = [NoCaller EXCEPT !.call = call, !.error = exception,
                                  !.raised_in = raised_in]

\* the call the caller made: execute, or the loop over the backends around it
CallMade ==
    IF frame.outer.active THEN "execute_all_backends_and_measuring_types" ELSE "execute"

\* CSD.__init__: without a configuration _set_default_values_after_config
\* reads self._architecture, which nothing has assigned
Construct ==
    /\ frame.pc = "unbuilt"
    /\ \E csd_config \in CSDConfigurations \cup {None} :
        IF csd_config = None
        THEN /\ frame' = [frame EXCEPT !.pc = "no instance"]
             /\ caller' = [NoCaller EXCEPT !.call = "CSD", !.error = "AttributeError",
                                           !.raised_in = "_set_default_values_after_config"]
             /\ UNCHANGED <<csd, audit>>
        ELSE /\ csd' = [NoCSD EXCEPT
                            !.steps = csd_config.steps,
                            !.batch_size = csd_config.batch_size,
                            !.architecture =
                                SetArchitecture(SetArchitecture(csd_config.architecture))]
             /\ frame' = [frame EXCEPT !.pc = "ready"]
             /\ caller' = [NoCaller EXCEPT !.call = "CSD"]
             /\ audit' = [audit EXCEPT
                            !.requested_modes = RequestedModes(csd_config.architecture),
                            !.requested_layers = RequestedLayers(csd_config.architecture)]
    /\ UNCHANGED <<engine_vars, cw, binding, fock>>

\* an engine that is built only when the instance holds none
ReusedEngine(self, engines) == IF self.engine = 0 THEN engines + 1 ELSE self.engine

\* the object Engine(...) of _create_engine hands back: one more engine
FreshEngine(self, engines) == engines + 1

\* the object Circuit(...) of _create_circuit hands back: one more circuit
FreshCircuit(self, circuits) == circuits + 1

\* CSD.execute up to the loop over the alphas
ExecuteWith(configuration) ==
    LET configured == ExecuteConfigure(csd, configuration)
        built == [configured EXCEPT !.circuit = FreshCircuit(configured, audit.circuits),
                                    !.engine = FreshEngine(configured, audit.engines)]
    IN  IF ExecuteValidation(csd) # "none"
        THEN /\ Raise(CallMade, ExecuteValidation(csd), "execute")
             /\ audit' = [audit EXCEPT !.executes = @ + 1, !.records_at_abort = 0,
                                       !.alphas_started = 0,
                                       !.collected_at_abort = frame.outer.collected]
             /\ UNCHANGED csd
        ELSE IF CreateCircuit(configured) # "none"
        THEN /\ Raise(CallMade, CreateCircuit(configured), "_create_circuit")
             /\ audit' = [audit EXCEPT !.executes = @ + 1, !.records_at_abort = 0,
                                       !.alphas_started = 0,
                                       !.collected_at_abort = frame.outer.collected]
             /\ csd' = configured
        ELSE IF InitResult(built).plot_label = "ValueError"
        THEN /\ Raise(CallMade, "ValueError", "_set_plot_label")
             /\ audit' = [audit EXCEPT !.executes = @ + 1, !.records_at_abort = 0,
                                       !.alphas_started = 0,
                                       !.collected_at_abort = frame.outer.collected,
                                       !.circuits = @ + 1, !.engines = @ + 1]
             /\ csd' = built
        ELSE /\ csd' = built
             /\ frame' = [NoFrame EXCEPT !.pc = "alpha_loop",
                                         !.learning_steps = SetLearningSteps(built),
                                         !.result = InitResult(built),
                                         !.outer = frame.outer]
             /\ caller' = [NoCaller EXCEPT !.call = CallMade]
             /\ audit' = [audit EXCEPT !.executes = @ + 1, !.records_at_abort = 0,
                                       !.alphas_started = 0,
                                       !.circuits = @ + 1, !.engines = @ + 1]

\* a caller's first call of execute on the instance
Execute ==
    /\ frame.pc = "ready"
    /\ audit.executes = 0
    /\ audit.all_calls = <<>>
    /\ \E configuration \in RunConfigurations : ExecuteWith(configuration)
    /\ UNCHANGED <<engine_vars, cw, binding, fock>>

\* np.round(alpha, 2) on thousandths: to the nearest hundredth, a half to
\* the even one
Round2(a) ==
    LET q == a \div 10
        r == a % 10
    IN  IF r < 5 THEN q * 10
        ELSE IF r > 5 THEN (q + 1) * 10
        ELSE IF q % 2 = 0 THEN q * 10
        ELSE (q + 1) * 10

\* CSD._create_batch: every list random.choice can draw from [A, MINUS_A]
CreateBatch(batch_size) == [1..batch_size -> {A, MINUS_A}]

\* CSD._create_input_batch
CreateInputBatch(batch, alpha_value) == [i \in 1..Len(batch) |-> alpha_value * batch[i]]

\* CSD._create_random_batch: the batches it can return
CreateRandomBatch(batch_size, alpha_value) ==
    {CreateInputBatch(base_batch, alpha_value) : base_batch \in CreateBatch(batch_size)}

\* the values the engine call of _compute_no_click_probabilities can hand
\* back for a batch: one probability for each sample
NoClickProbabilities(batch) == [1..Len(batch) -> {Frac(k, ProbUnits) : k \in 0..ProbUnits}]

\* CSD._compute_photodetector_probabilities on those values
ComputePhotodetectorProbabilities(no_click_probabilities) ==
    [prob_click |-> [i \in 1..Len(no_click_probabilities) |->
                        OneMinus(no_click_probabilities[i])],
     prob_no_click |-> no_click_probabilities]

\* p_errors taken from prob_no_click whatever the sample is
PErrorsOfNoClick(batch, alpha_value, photodetector_prob) ==
    [i \in 1..Len(batch) |-> photodetector_prob.prob_no_click[i]]

\* the list p_errors of CSD._compute_average_error_probability
PErrors(batch, alpha_value, photodetector_prob) ==
    [i \in 1..Len(batch) |->
        IF batch[i] = alpha_value THEN photodetector_prob.prob_click[i]
        ELSE photodetector_prob.prob_no_click[i]]

\* sum(p_errors), the numerators over the common denominator ProbUnits
RECURSIVE SumNum(_, _)
SumNum(p_errors, k) ==
    IF k > Len(p_errors) THEN 0 ELSE p_errors[k].num + SumNum(p_errors, k + 1)

\* _compute_average_error_probability without the division by the length
ComputeSumErrorProbability(batch, alpha_value, photodetector_prob) ==
    Frac(SumNum(PErrors(batch, alpha_value, photodetector_prob), 1), ProbUnits)

\* CSD._compute_average_error_probability for a batch that is not empty
ComputeAverageErrorProbability(batch, alpha_value, photodetector_prob) ==
    Frac(SumNum(PErrors(batch, alpha_value, photodetector_prob), 1),
         ProbUnits * Len(batch))

\* _update_result without its second append
UpdateResultWithoutBatch(result, self, optimized_parameters) ==
    [result EXCEPT
        !.alphas = Append(@, Round2(self.alpha_value)),
        !.opt_params = Append(@, optimized_parameters),
        !.p_err = Append(@, self.current_p_err),
        !.p_succ = Append(@, OneMinus(self.current_p_err))]

\* CSD._update_result
UpdateResult(result, self, optimized_parameters) ==
    [result EXCEPT
        !.alphas = Append(@, Round2(self.alpha_value)),
        !.batches = Append(@, self.batch),
        !.opt_params = Append(@, optimized_parameters),
        !.p_err = Append(@, self.current_p_err),
        !.p_succ = Append(@, OneMinus(self.current_p_err))]

\* an exception leaves execute from inside the loop over the alphas
RaiseInLoop(exception, raised_in) ==
    /\ Raise(CallMade, exception, raised_in)
    /\ audit' = [audit EXCEPT !.records_at_abort = Len(frame.result.alphas),
                              !.collected_at_abort = frame.outer.collected]

\* the history of the cost evaluations once an alpha is left: the last value
\* stays, as self._current_p_err does
AlphaLeft(cost_log) ==
    [cost_log EXCEPT !.lowest = NoPErr, !.batch = <<>>, !.at = <<0, 0, 0>>]

\* CSD._execute_for_one_alpha up to its loop, for the next alpha of the list
ExecuteForOneAlpha ==
    /\ frame.pc = "alpha_loop"
    /\ frame.alpha_index < Len(csd.alphas)
    /\ csd' = [csd EXCEPT !.alpha_value = csd.alphas[frame.alpha_index + 1]]
    /\ frame' = [frame EXCEPT !.pc = "step_loop", !.alpha_index = @ + 1, !.step = 0,
                              !.optimized_parameters = 0]
    /\ audit' = [audit EXCEPT !.optimize_calls = 0, !.alphas_started = @ + 1,
                              !.cost_log = AlphaLeft(@)]
    /\ UNCHANGED <<caller, engine_vars, cw, binding, fock>>

\* CSD.execute after the last alpha: the result goes to the caller
ExecuteReturn ==
    /\ frame.pc = "alpha_loop"
    /\ frame.alpha_index >= Len(csd.alphas)
    /\ ~frame.outer.active
    /\ frame' = [NoFrame EXCEPT !.pc = "ready"]
    /\ caller' = [NoCaller EXCEPT !.call = "execute", !.returned = frame.result]
    /\ audit' = [audit EXCEPT !.cost_log = AlphaLeft(@)]
    /\ UNCHANGED <<csd, engine_vars, cw, binding, fock>>

\* CSD._execute_for_one_alpha_and_step up to the call of the minimizer
ExecuteForOneAlphaAndStep ==
    /\ frame.pc = "step_loop"
    /\ frame.step < frame.learning_steps
    /\ \E batch \in CreateRandomBatch(csd.batch_size, csd.alpha_value) :
        /\ csd' = [csd EXCEPT !.batch = batch]
        /\ audit' = [audit EXCEPT !.optimize_calls = @ + 1,
                                  !.cost_log.drawn = batch,
                                  !.cost_log.drawn_step = frame.step + 1]
    /\ frame' = [frame EXCEPT !.pc = "optimize", !.n_evals = 0]
    /\ UNCHANGED <<caller, engine_vars, cw, binding, fock>>

\* CSD._compute_no_click_probabilities: the exception its checks raise
ComputeNoClickProbabilitiesError(self) ==
    IF self.circuit = 0 THEN "ValueError"
    ELSE IF self.run_configuration = None THEN "ValueError"
    ELSE "none"

\* _compute_no_click_probabilities runs the engine: once for each sample,
\* and once for the whole batch when the backend is TensorFlow
InvokesEngine(self) == Len(self.batch) > 0 \/ BackendIsTf(self)

\* _cost_function keeping the lowest cost it has computed
SaveLowestPError(self, p_err) ==
    IF self.current_p_err # NoPErr /\ FracGt(p_err, self.current_p_err)
    THEN self.current_p_err
    ELSE p_err

\* CSD._save_current_p_error: the value _cost_function stores
SaveCurrentPError(self, p_err) == p_err

\* the history of the cost evaluations after one that gave p_err: its value,
\* its batch, the run, alpha and step it was made in, and the lowest value
\* of the alpha so far
LoggedCost(cost_log, p_err) ==
    [cost_log EXCEPT
        !.value = p_err,
        !.batch = csd.batch,
        !.at = <<audit.executes, frame.alpha_index, frame.step + 1>>,
        !.lowest = IF @ = NoPErr \/ FracGt(@, p_err) THEN p_err ELSE @]

\* CSD._cost_function on the fields of the instance
CostFunctionBody ==
    IF ComputeNoClickProbabilitiesError(csd) # "none"
    THEN /\ Raise(IF frame.pc = "optimize" THEN CallMade ELSE "_cost_function",
                  ComputeNoClickProbabilitiesError(csd),
                  "_compute_no_click_probabilities")
         /\ audit' = [audit EXCEPT !.records_at_abort = Len(frame.result.alphas),
                                   !.collected_at_abort = frame.outer.collected]
         /\ UNCHANGED csd
    ELSE IF Len(csd.batch) = 0
    THEN /\ Raise(IF frame.pc = "optimize" THEN CallMade ELSE "_cost_function",
                  "ZeroDivisionError", "_compute_average_error_probability")
         /\ audit' = [audit EXCEPT !.records_at_abort = Len(frame.result.alphas),
                                   !.collected_at_abort = frame.outer.collected,
                                   !.engine_invoked = @ \/ InvokesEngine(csd),
                                   !.engine_use =
                                        IF InvokesEngine(csd)
                                        THEN @ \cup {<<csd.engine, audit.executes,
                                                       frame.alpha_index>>}
                                        ELSE @]
         /\ UNCHANGED csd
    ELSE /\ \E no_click_probabilities \in NoClickProbabilities(csd.batch) :
            frame' = [frame EXCEPT
                !.n_evals = @ + 1,
                !.photodetector_prob =
                    ComputePhotodetectorProbabilities(no_click_probabilities)]
         /\ csd' = [csd EXCEPT !.current_p_err =
                    SaveCurrentPError(csd,
                        ComputeAverageErrorProbability(csd.batch, csd.alpha_value,
                                                       frame'.photodetector_prob))]
         /\ audit' = [audit EXCEPT
                        !.engine_invoked = TRUE,
                        !.engine_use = @ \cup {<<csd.engine, audit.executes,
                                                 frame.alpha_index>>},
                        !.p_err_written = <<audit.executes, frame.alpha_index>>,
                        !.cost_log = LoggedCost(@,
                            ComputeAverageErrorProbability(csd.batch, csd.alpha_value,
                                                           frame'.photodetector_prob))]
         /\ UNCHANGED caller

\* CSD._cost_function, called by the minimizer
CostFunction ==
    /\ frame.pc = "optimize"
    /\ frame.n_evals < MaxEvals
    /\ CostFunctionBody
    /\ UNCHANGED <<engine_vars, cw, binding, fock>>

\* Optimize.optimize returns: the parameters it found are named by the step
OptimizeReturn ==
    /\ frame.pc = "optimize"
    /\ frame' = [frame EXCEPT !.pc = "step_loop", !.step = @ + 1,
                              !.optimized_parameters = frame.step + 1]
    /\ UNCHANGED <<csd, caller, audit, engine_vars, cw, binding, fock>>

\* the minimizer or the simulation behind it fails
OptimizeRaises ==
    /\ frame.pc = "optimize"
    /\ RaiseInLoop("RuntimeError", "optimize")
    /\ UNCHANGED <<csd, engine_vars, cw, binding, fock>>

\* CSD._execute_for_one_alpha after its loop: the call of _update_result
ExecuteUpdateResult ==
    /\ frame.pc = "step_loop"
    /\ frame.step >= frame.learning_steps
    /\ IF frame.optimized_parameters = 0
       THEN RaiseInLoop("UnboundLocalError", "_execute_for_one_alpha")
       ELSE IF csd.current_p_err = NoPErr
       THEN RaiseInLoop("AttributeError", "_update_result")
       ELSE /\ frame' = [frame EXCEPT
                    !.pc = "alpha_loop",
                    !.result = UpdateResult(@, csd, frame.optimized_parameters)]
            /\ audit' = [audit EXCEPT
                    !.carried = @ \/ audit.p_err_written
                                        # <<audit.executes, frame.alpha_index>>]
            /\ UNCHANGED caller
    /\ UNCHANGED <<csd, engine_vars, cw, binding, fock>>

\* the argument None of measuring_types
NoneList == <<"None">>

\* the lists of backends and of measuring types a caller passes
BackendLists == UNION {[1..k -> Backends \cup OtherBackends] : k \in 0..MaxExecutes}

MeasuringTypeLists == UNION {[1..k -> MeasuringTypes] : k \in 0..MaxExecutes}

\* list.count(x) > 0
Counts(list, x) == \E i \in 1..Len(list) : list[i] = x

\* the runs execute_all_backends_and_measuring_types makes, in its order:
\* the two flags required_probability_execution and required_sampling_execution
Phases(measuring_types) ==
    LET given == IF measuring_types = NoneList THEN <<"probabilities">>
                 ELSE measuring_types
    IN  (IF Counts(given, "probabilities") THEN <<"probabilities">> ELSE <<>>)
        \o (IF Counts(given, "sampling") THEN <<"sampling">> ELSE <<>>)

\* the RunConfiguration of _execute_with_given_backends for one backend
GivenBackendConfiguration(self, alphas, backend, measuring_type) ==
    [alphas |-> alphas, backend |-> backend, measuring_type |-> measuring_type,
     batch_size |-> self.batch_size]

\* what the history keeps of one call of execute_all_backends_and_measuring_types
AllCall(self, backends, measuring_types) ==
    [backends |-> Len(backends), phases |-> Phases(measuring_types), returned |-> FALSE,
     probability_before |-> self.probability_results,
     sampling_before |-> self.sampling_results]

\* CSD.execute_all_backends_and_measuring_types up to its first run
ExecuteAllCall ==
    /\ frame.pc = "ready"
    /\ \E alphas \in AlphaLists(MaxAlphas - 1), backends \in BackendLists,
          measuring_types \in MeasuringTypeLists \cup {NoneList} :
        /\ frame' = [NoFrame EXCEPT
                    !.pc = "backend_loop",
                    !.outer = [active |-> TRUE, alphas |-> alphas, backends |-> backends,
                               phases |-> Phases(measuring_types), phase |-> 1,
                               index |-> 0, collected |-> <<>>]]
        /\ audit' = [audit EXCEPT
                        !.all_calls = Append(@, AllCall(csd, backends, measuring_types))]
    /\ caller' = [NoCaller EXCEPT !.call = "execute_all_backends_and_measuring_types"]
    /\ UNCHANGED <<csd, engine_vars, cw, binding, fock>>

\* the first call made on an instance is execute_all_backends_and_measuring_types
ExecuteAllBackendsAndMeasuringTypes ==
    /\ audit.executes = 0
    /\ audit.all_calls = <<>>
    /\ ExecuteAllCall

\* CSD._execute_with_given_backends: the call of execute for the next backend
ExecuteWithGivenBackends ==
    /\ frame.pc = "backend_loop"
    /\ frame.outer.phase <= Len(frame.outer.phases)
    /\ frame.outer.index < Len(frame.outer.backends)
    /\ audit.executes < MaxExecutes
    /\ ExecuteWith(GivenBackendConfiguration(csd, frame.outer.alphas,
                        frame.outer.backends[frame.outer.index + 1],
                        frame.outer.phases[frame.outer.phase]))
    /\ UNCHANGED <<engine_vars, cw, binding, fock>>

\* CSD.execute returns into the list _execute_with_given_backends is building
ExecuteReturnToList ==
    /\ frame.pc = "alpha_loop"
    /\ frame.alpha_index >= Len(csd.alphas)
    /\ frame.outer.active
    /\ frame' = [NoFrame EXCEPT
                    !.pc = "backend_loop",
                    !.outer = [frame.outer EXCEPT !.collected = Append(@, frame.result),
                                                  !.index = @ + 1]]
    /\ audit' = [audit EXCEPT !.cost_log = AlphaLeft(@)]
    /\ UNCHANGED <<csd, caller, engine_vars, cw, binding, fock>>

\* both lists of results extended by +=
AssignedResultsAdded(self, measuring_type, collected) ==
    IF measuring_type = "probabilities"
    THEN [self EXCEPT !.probability_results = @ \o collected]
    ELSE [self EXCEPT !.sampling_results = @ \o collected]

\* self._probability_results = ..., self._sampling_results += ...
AssignedResults(self, measuring_type, collected) ==
    IF measuring_type = "probabilities"
    THEN [self EXCEPT !.probability_results = collected]
    ELSE [self EXCEPT !.sampling_results = @ \o collected]

\* the list of one measuring type is complete: the probability results are
\* assigned, the sampling results are added to those already held
AssignResults ==
    /\ frame.pc = "backend_loop"
    /\ frame.outer.phase <= Len(frame.outer.phases)
    /\ frame.outer.index >= Len(frame.outer.backends)
    /\ csd' = AssignedResults(csd, frame.outer.phases[frame.outer.phase],
                               frame.outer.collected)
    /\ frame' = [frame EXCEPT !.outer.phase = @ + 1, !.outer.index = 0,
                              !.outer.collected = <<>>]
    /\ UNCHANGED <<caller, audit, engine_vars, cw, binding, fock>>

\* CSD.execute_all_backends_and_measuring_types returns
ExecuteAllReturn ==
    /\ frame.pc = "backend_loop"
    /\ frame.outer.phase > Len(frame.outer.phases)
    /\ frame' = [NoFrame EXCEPT !.pc = "ready"]
    /\ caller' = [caller EXCEPT
                    !.returned_list = csd.probability_results \o csd.sampling_results]
    /\ audit' = [audit EXCEPT !.all_calls[Len(audit.all_calls)].returned = TRUE]
    /\ UNCHANGED <<csd, engine_vars, cw, binding, fock>>

\* a driver on its own. The circuit, the engine and the minimizer are taken
\* through the calls csd.py makes on them: Circuit(...), Engine(backend=...,
\* options=...) and Optimize(...) hand back an object, and
\* run_circuit_checking_measuring_type hands back the no-click probability
\* of a sample. engine.py of this tree names that constructor parameter
\* engine_backend and returns a CodeWordSuccessProbability, so the two files
\* do not fit together as they stand; the driver is followed on its own code
InitCSD ==
    /\ EngineInit
    /\ cutoff_dim = MaxCutoff
    /\ csd = NoCSD
    /\ frame = NoFrame
    /\ caller = NoCaller
    /\ audit = NoAudit
    /\ cw = NoWord
    /\ binding = NoBinding
    /\ fock = NoFock

NextCSD ==
    \/ Construct
    \/ Execute
    \/ ExecuteForOneAlpha
    \/ ExecuteReturn
    \/ ExecuteForOneAlphaAndStep
    \/ CostFunction
    \/ OptimizeReturn
    \/ OptimizeRaises
    \/ ExecuteUpdateResult
    \/ ExecuteAllBackendsAndMeasuringTypes
    \/ ExecuteWithGivenBackends
    \/ ExecuteReturnToList
    \/ AssignResults
    \/ ExecuteAllReturn

SpecCSD == InitCSD /\ [][NextCSD]_vars

\* ------------------------------------- one instance, called again and again
\* the calls of execute_all_backends_and_measuring_types on one instance
MaxAllCalls == 2

\* the configuration of the instance that is called again and again: one
\* step, batches of one sample, the default architecture
RepeatConfiguration == [steps |-> 1, batch_size |-> 1, architecture |-> None]

\* an instance built from that configuration
InitRepeat ==
    /\ EngineInit
    /\ cutoff_dim = MaxCutoff
    /\ \E csd_config \in {RepeatConfiguration} :
        csd = [NoCSD EXCEPT
                !.steps = csd_config.steps,
                !.batch_size = csd_config.batch_size,
                !.architecture = SetArchitecture(SetArchitecture(csd_config.architecture))]
    /\ frame = [NoFrame EXCEPT !.pc = "ready"]
    /\ caller = [NoCaller EXCEPT !.call = "CSD"]
    /\ audit = NoAudit
    /\ cw = NoWord
    /\ binding = NoBinding
    /\ fock = NoFock

\* one more call of execute_all_backends_and_measuring_types on the instance
ExecuteAllAgain ==
    /\ Len(audit.all_calls) < MaxAllCalls
    /\ ExecuteAllCall

NextRepeat ==
    \/ ExecuteAllAgain
    \/ ExecuteWithGivenBackends
    \/ ExecuteReturnToList
    \/ AssignResults
    \/ ExecuteAllReturn
    \/ ExecuteForOneAlpha
    \/ ExecuteForOneAlphaAndStep
    \/ CostFunction
    \/ OptimizeReturn
    \/ OptimizeRaises
    \/ ExecuteUpdateResult

SpecRepeat == InitRepeat /\ [][NextRepeat]_vars


\* ------------------------------------- the driver's functions on their own
\* the run configurations of an instance whose helper functions are called
GuardRunConfigurations ==
    {base @@ steps :
        base \in [backend : Backends, measuring_type : MeasuringTypes],
        steps \in {EmptyDict} \cup {[steps |-> n] : n \in 0..(MaxSteps - 1)}}

\* the batches an instance can hold: csd_config.get('batch', []) or a batch
\* of _create_random_batch
GuardBatches ==
    UNION {CreateRandomBatch(n, alpha) : n \in 0..MaxBatch, alpha \in InputAlphas}

\* the instances the helper functions are called on: each of the fields they
\* check either missing or set
GuardInstances ==
    {[NoCSD EXCEPT !.architecture = architecture,
                   !.run_configuration = run_configuration,
                   !.circuit = built, !.engine = built,
                   !.steps = MaxSteps, !.batch_size = Len(batch),
                   !.alpha_value = IF Len(batch) = 0 THEN 0
                                   ELSE IF batch[1] < 0 THEN -batch[1] ELSE batch[1],
                   !.batch = batch] :
        architecture \in {None, EmptyDict, DefaultArchitecture},
        run_configuration \in {None} \cup GuardRunConfigurations,
        built \in {0, 1},
        batch \in GuardBatches}

InitGuards ==
    /\ EngineInit
    /\ cutoff_dim = MaxCutoff
    /\ csd \in GuardInstances
    /\ frame = [NoFrame EXCEPT !.pc = "ready"]
    /\ caller = NoCaller
    /\ audit = [NoAudit EXCEPT !.circuits = csd.circuit, !.engines = csd.engine]
    /\ cw = NoWord
    /\ binding = NoBinding
    /\ fock = NoFock

\* a helper function was called and is over: what the caller got from it
Called(call, exception) ==
    /\ frame' = [frame EXCEPT !.pc = "called"]
    /\ caller' = [NoCaller EXCEPT !.call = call, !.error = exception,
                                  !.raised_in = IF exception = "none" THEN "none" ELSE call]

\* no call has been made on the instance
Uncalled == frame.pc = "ready" /\ caller.call = "none" /\ frame.n_evals = 0

\* a call of execute on such an instance
CallExecute ==
    /\ Uncalled
    /\ \E configuration \in GuardRunConfigurations : ExecuteWith(configuration)
    /\ UNCHANGED <<engine_vars, cw, binding, fock>>

\* a call of _create_circuit on such an instance
CallCreateCircuit ==
    /\ Uncalled
    /\ Called("_create_circuit", CreateCircuit(csd))
    /\ audit' = [audit EXCEPT !.circuits = IF CreateCircuit(csd) = "none" THEN @ + 1 ELSE @]
    /\ UNCHANGED <<csd, engine_vars, cw, binding, fock>>

\* a call of _create_engine on such an instance
CallCreateEngine ==
    /\ Uncalled
    /\ Called("_create_engine", CreateEngine(csd))
    /\ audit' = [audit EXCEPT !.engines = IF CreateEngine(csd) = "none" THEN @ + 1 ELSE @]
    /\ UNCHANGED <<csd, engine_vars, cw, binding, fock>>

\* a call of _set_learning_steps on such an instance
CallSetLearningSteps ==
    /\ Uncalled
    /\ caller' = [NoCaller EXCEPT
                    !.call = "_set_learning_steps",
                    !.error = SetLearningStepsError(csd),
                    !.raised_in = IF SetLearningStepsError(csd) = "none" THEN "none"
                                  ELSE "_set_learning_steps"]
    /\ frame' = [frame EXCEPT
                    !.pc = "called",
                    !.learning_steps = IF SetLearningStepsError(csd) = "none"
                                       THEN SetLearningSteps(csd) ELSE @]
    /\ UNCHANGED <<csd, audit, engine_vars, cw, binding, fock>>

\* a call of _compute_no_click_probabilities on such an instance, for its batch
CallComputeNoClickProbabilities ==
    /\ Uncalled
    /\ Called("_compute_no_click_probabilities", ComputeNoClickProbabilitiesError(csd))
    /\ audit' = [audit EXCEPT
                    !.engine_invoked = /\ ComputeNoClickProbabilitiesError(csd) = "none"
                                       /\ InvokesEngine(csd)]
    /\ UNCHANGED <<csd, engine_vars, cw, binding, fock>>

\* a call of _cost_function on such an instance
CallCostFunction ==
    /\ frame.pc = "ready"
    /\ caller.call = "none"
    /\ frame.n_evals < MaxEvals
    /\ CostFunctionBody
    /\ UNCHANGED <<engine_vars, cw, binding, fock>>

NextGuards ==
    \/ CallExecute
    \/ CallCreateCircuit
    \/ CallCreateEngine
    \/ CallSetLearningSteps
    \/ CallComputeNoClickProbabilities
    \/ CallCostFunction

SpecGuards == InitGuards /\ [][NextGuards]_vars

\* ------------------------------------------------------ a word on its own
\* the lists a caller can hand to CodeWord(...) as its word
SuppliedSymbols == {x \in -MaxSize..MaxSize : x # 0}

SuppliedWords == UNION {[1..n -> SuppliedSymbols] : n \in 0..MaxSize}

InitWord ==
    /\ EngineInit
    /\ cutoff_dim = MaxCutoff
    /\ csd = NoCSD
    /\ frame = NoFrame
    /\ caller = NoCaller
    /\ audit = NoAudit
    /\ cw = NoWord
    /\ binding = NoBinding
    /\ fock = NoFock

\* the instance CodeWord.__init__ leaves, with what it was asked for
Constructed(size, alpha_value, word, how) ==
    [alpha |-> CodeWordInit(size, alpha_value, word).alpha,
     word |-> CodeWordInit(size, alpha_value, word).word,
     size |-> size, how |-> how,
     original |-> CodeWordInit(size, alpha_value, word).word,
     last |-> <<>>]

\* CodeWord(size, alpha_value): the word is drawn by _create_random_word
ConstructRandom ==
    /\ cw.how = "none"
    /\ \E size \in 0..MaxSize, alpha_value \in Alphas :
        \E word \in CreateRandomWord(size, alpha_value) :
            cw' = Constructed(size, alpha_value, word, "random")
    /\ UNCHANGED <<engine_vars, csd_vars, binding, fock>>

\* CodeWord(size, alpha_value, word): the word is the caller's list
ConstructSupplied ==
    /\ cw.how = "none"
    /\ \E size \in 0..MaxSize, alpha_value \in Alphas, word \in SuppliedWords :
        cw' = Constructed(size, alpha_value, word, "supplied")
    /\ UNCHANGED <<engine_vars, csd_vars, binding, fock>>

\* what each property and method of the class hands back
Operation(codeword, name) ==
    IF name = "word" THEN codeword.word
    ELSE IF name = "to_list" THEN ToList(codeword)
    ELSE IF name = "size" THEN <<Size(codeword)>>
    ELSE IF name = "number_alphas" THEN <<NumberAlphas(codeword)>>
    ELSE IF name = "number_minus_alphas" THEN <<NumberMinusAlphas(codeword)>>
    ELSE IF name = "zero_list" THEN ZeroList(codeword)
    ELSE IF name = "minus_indices" THEN MinusIndices(codeword)
    ELSE <<CodeWordEq(codeword, codeword)>>

Operations ==
    {"word", "to_list", "size", "number_alphas", "number_minus_alphas", "zero_list",
     "minus_indices", "__eq__"}

\* a property or a method of the instance is used
Operate ==
    /\ cw.how # "none"
    /\ \E name \in Operations :
        cw' = [cw EXCEPT !.last = <<name, Operation(cw, name)>>]
    /\ UNCHANGED <<engine_vars, csd_vars, binding, fock>>

NextWord ==
    \/ ConstructRandom
    \/ ConstructSupplied
    \/ Operate

SpecWord == InitWord /\ [][NextWord]_vars

\* ------------------------------------------- the binding of the parameters
MaxNames == 4
MaxParams == 2

\* the names a circuit can give its parameters
ParameterNames == {"p1", "p2", "p3", "p4", "p5"}

\* circuit.parameters.keys(): distinct names in the circuit's order
Circuits ==
    {names \in UNION {[1..k -> ParameterNames] : k \in 0..MaxNames} :
        \A i, j \in 1..Len(names) : names[i] = names[j] => i = j}

\* options['params']: the tunable parameter vector
ParamVectors == UNION {[1..k -> {0, 1}] : k \in 0..MaxParams}

\* the for loop of _parse_circuit_parameters: each param is appended in turn
RECURSIVE AppendEach(_, _, _)
AppendEach(all_values, params, k) ==
    IF k > Len(params) THEN all_values
    ELSE AppendEach(Append(all_values, params[k]), params, k + 1)

\* all_values of _parse_circuit_parameters: a new list of the word's elements,
\* then the params
AllValues(input_codeword, params) ==
    AppendEach([i \in 1..Len(ToList(input_codeword)) |-> ToList(input_codeword)[i]],
               params, 1)

\* all_values with the params ahead of the word's elements
AllValuesParamsFirst(input_codeword, params) ==
    AppendEach(params, ToList(input_codeword), 1)

\* zip(names, all_values): pairs up to the end of the shorter of the two
Zip(names, all_values) ==
    [i \in 1..(IF Len(names) < Len(all_values) THEN Len(names) ELSE Len(all_values))
        |-> <<names[i], all_values[i]>>]

\* the dict comprehension: the pairs are stored in turn, a later pair with the
\* same name replacing the earlier one
RECURSIVE DictOf(_, _, _)
DictOf(pairs, k, d) ==
    IF k > Len(pairs) THEN d
    ELSE DictOf(pairs, k + 1,
                [name \in DOMAIN d \cup {pairs[k][1]} |->
                    IF name = pairs[k][1] THEN pairs[k][2] ELSE d[name]])

\* Engine._parse_circuit_parameters with the params ahead of the amplitudes
ParseCircuitParametersParamsFirst(parameters, input_codeword, params) ==
    DictOf(Zip(parameters, AllValuesParamsFirst(input_codeword, params)), 1, EmptyDict)

\* Engine._parse_circuit_parameters
ParseCircuitParameters(parameters, input_codeword, params) ==
    DictOf(Zip(parameters, AllValues(input_codeword, params)), 1, EmptyDict)

InitParse ==
    /\ EngineInit
    /\ cutoff_dim = MaxCutoff
    /\ csd = NoCSD
    /\ frame = NoFrame
    /\ caller = NoCaller
    /\ audit = NoAudit
    /\ cw = NoWord
    /\ binding \in [pc : {"called"}, parameters : Circuits, input_codeword : CodeWords,
                    params : ParamVectors, args : {EmptyDict}]
    /\ fock = NoFock

\* a call of _parse_circuit_parameters(circuit, options) returns its dict
CallParseCircuitParameters ==
    /\ binding.pc = "called"
    /\ binding' = [binding EXCEPT
            !.pc = "returned",
            !.args = ParseCircuitParameters(binding.parameters, binding.input_codeword,
                                            binding.params)]
    /\ UNCHANGED <<engine_vars, csd_vars, cw, fock>>

NextParse == CallParseCircuitParameters

SpecParse == InitParse /\ [][NextParse]_vars

\* ------------------------------------------------- claims on the binding
\* the i-th value of the sequence the claim describes: the amplitudes of the
\* input codeword mode by mode, then the tunable parameters
ValueAt(i) ==
    IF i <= Len(binding.input_codeword.word) THEN binding.input_codeword.word[i]
    ELSE binding.params[i - Len(binding.input_codeword.word)]

NumberOfValues == Len(binding.input_codeword.word) + Len(binding.params)

\* C21: the dict _parse_circuit_parameters returns maps the i-th name of the
\* circuit to the i-th value of the amplitudes of the input codeword followed
\* by the tunable parameters, and to nothing else; when there are as many
\* names as values every name is bound and every value has its name
C21_PositionalBinding ==
    binding.pc = "returned" =>
        /\ \A i \in 1..Len(binding.parameters) :
            i <= NumberOfValues =>
                /\ binding.parameters[i] \in DOMAIN binding.args
                /\ binding.args[binding.parameters[i]] = ValueAt(i)
        /\ \A name \in DOMAIN binding.args :
            \E i \in 1..Len(binding.parameters) :
                i <= NumberOfValues /\ binding.parameters[i] = name
        /\ Len(binding.parameters) = NumberOfValues =>
            /\ DOMAIN binding.args = {binding.parameters[i] : i \in 1..NumberOfValues}
            /\ Cardinality(DOMAIN binding.args) = NumberOfValues

\* C21: a circuit of four names out of order was bound to a two-mode word
\* and two parameters that differ
C21_Witness ==
    /\ binding.pc = "returned"
    /\ binding.parameters = <<"p3", "p1", "p4", "p2">>
    /\ binding.input_codeword.word = <<2, -2>>
    /\ binding.params = <<0, 1>>
    /\ binding.args = [name \in {"p1", "p2", "p3", "p4"} |->
                          IF name = "p3" THEN 2
                          ELSE IF name = "p1" THEN -2
                          ELSE IF name = "p4" THEN 0 ELSE 1]

\* C21: with fewer names than values the values past the names are dropped
C21_ValuesDropped ==
    /\ binding.pc = "returned"
    /\ Len(binding.parameters) < NumberOfValues
    /\ Cardinality(DOMAIN binding.args) = Len(binding.parameters)

\* ------------------------------------------- the index generator on its own
\* the amplitudes CodeWord(size, alpha_value) accepts: any number
AnyAlphas == Alphas \cup {0, -1}

\* the codewords of size 1..MaxSize the constructor builds, with the way each
\* can be built
BuiltCodeWords ==
    UNION {{[codeword |-> CodeWordInit(Len(w), a, w), how |-> "random"] :
                w \in UNION {CreateRandomWord(n, a) : n \in 1..MaxSize}} : a \in AnyAlphas}
    \cup {[codeword |-> CodeWordInit(Len(w), a, w), how |-> "supplied"] :
            a \in AnyAlphas, w \in SuppliedWords \ {<<>>}}

InitIndices ==
    /\ EngineInit
    /\ cutoff_dim = MaxCutoff
    /\ csd = NoCSD
    /\ frame = NoFrame
    /\ caller = NoCaller
    /\ audit = NoAudit
    /\ cw = NoWord
    /\ binding = NoBinding
    /\ \E built \in BuiltCodeWords, cutoff_dimension \in 1..MaxCutoff :
        fock = [NoFock EXCEPT !.pc = "called", !.codeword = built.codeword,
                              !.how = built.how, !.cutoff_dimension = cutoff_dimension]

\* a call of _get_fock_prob_indices_from_modes(codeword, cutoff_dimension)
CallGetFockProbIndicesFromModes ==
    /\ fock.pc = "called"
    /\ fock' = [fock EXCEPT
            !.pc = "returned",
            !.got = GetFockProbIndicesFromModes(fock.codeword, fock.cutoff_dimension)]
    /\ UNCHANGED <<engine_vars, csd_vars, cw, binding>>

NextIndices == CallGetFockProbIndicesFromModes

SpecIndices == InitIndices /\ [][NextIndices]_vars

\* ------------------------------------------ claims on the index generator
\* the set of index tuples generated for the k-th hypothesis
TupleSet(k) == {fock.got.indices[k].indices[t] : t \in 1..Len(fock.got.indices[k].indices)}

\* the generator returned the index lists of the two hypotheses of a codeword
\* of size n >= 1 at a cutoff D >= n
IndicesGenerated ==
    /\ fock.pc = "returned"
    /\ Len(fock.codeword.word) >= 1
    /\ fock.cutoff_dimension >= Len(fock.codeword.word)
    /\ fock.got.error = "none"
    /\ Len(fock.got.indices) = 2

\* position i is 0 in every tuple of hypothesis k and nonzero in every tuple
\* of hypothesis l
ZeroInOneNonzeroInOther(i, k, l) ==
    /\ \A t \in TupleSet(k) : t[i] = 0
    /\ \A t \in TupleSet(l) : t[i] # 0

DisjointSets ==
    /\ TupleSet(1) \cap TupleSet(2) = {}
    /\ \A i \in 1..Len(fock.codeword.word) :
        ZeroInOneNonzeroInOther(i, 1, 2) \/ ZeroInOneNonzeroInOther(i, 2, 1)

\* C22: for every codeword of size n >= 1 and every cutoff D >= n the index
\* tuples generated for the codeword and those generated for its complement
\* are disjoint, each position being 0 in one set and nonzero in the other
C22_HypothesesDisjoint == IndicesGenerated => DisjointSets

\* C22: a codeword of amplitude 0 built by the random constructor gets the
\* same single all-zero tuple for itself and for its complement
C22_Witness ==
    /\ IndicesGenerated
    /\ fock.how = "random"
    /\ fock.codeword.alpha = 0
    /\ TupleSet(1) = TupleSet(2)
    /\ TupleSet(1) = {[i \in 1..Len(fock.codeword.word) |-> 0]}

\* C22: the sets are disjoint for every codeword whose amplitude is not 0 and
\* whose symbols are all +alpha or -alpha
C22_DisjointForSignedWords ==
    (/\ IndicesGenerated
     /\ fock.codeword.alpha # 0
     /\ \A i \in 1..Len(fock.codeword.word) :
            fock.codeword.word[i] \in {fock.codeword.alpha, -fock.codeword.alpha})
        => DisjointSets

\* C22: a two-mode codeword of amplitude 2 with both signs, cutoff above 2
C22_SignedWordReached ==
    /\ IndicesGenerated
    /\ fock.codeword = CodeWordInit(2, 2, <<2, -2>>)
    /\ fock.cutoff_dimension > 2
    /\ Cardinality(TupleSet(1)) > 1
    /\ DisjointSets

\* ----------------------------------------------------- claims on the driver
ExecuteCalls == {"execute", "execute_all_backends_and_measuring_types"}

\* the caller's architecture asks for more than one mode or one layer
NonSingleRequested == audit.requested_modes # 1 \/ audit.requested_layers # 1

\* the last execute call was turned down by the checks at its head, with
\* nothing built and nothing recorded
RejectedAtHead ==
    /\ frame.pc = "ready"
    /\ caller.call \in ExecuteCalls
    /\ caller.error = "ValueError"
    /\ caller.raised_in = "execute"
    /\ audit.circuits = 0
    /\ audit.engines = 0
    /\ audit.optimize_calls = 0
    /\ frame.result = NoResult

\* C11: execute turns down, with a validation error and before a circuit or
\* an engine is built, a step is run or a record is appended, every
\* architecture whose mode count or layer count is not exactly 1, under
\* whichever key the caller wrote the counts
C11_RejectsEveryNonSingleArchitecture ==
    (audit.executes > 0 /\ NonSingleRequested) => RejectedAtHead

\* C11: an architecture asking for two modes under the key of csd.py is
\* turned down
C11_Witness ==
    /\ RejectedAtHead
    /\ csd.architecture.number_qumodes = MaxModes


\* execute is between its head and its return
InLoop == frame.pc \in {"alpha_loop", "step_loop", "optimize"}

\* the last execute call returned its result to the caller
Returned ==
    /\ frame.pc = "ready"
    /\ caller.call = "execute"
    /\ caller.error = "none"
    /\ audit.executes > 0

\* the alphas whose record execute has appended so far
AlphasDone == IF frame.pc = "alpha_loop" THEN frame.alpha_index ELSE frame.alpha_index - 1

\* the five lists of a result hold n records, for the first n alphas in order
HoldsRecords(result, n) ==
    /\ Len(result.alphas) = n
    /\ Len(result.batches) = n
    /\ Len(result.opt_params) = n
    /\ Len(result.p_err) = n
    /\ Len(result.p_succ) = n
    /\ \A i \in 1..n : result.alphas[i] = Round2(csd.alphas[i])

\* C12: a result that execute returns holds one record for each alpha, in the
\* order of the list, in each of its five lists; while execute runs, the
\* five lists hold one record for each alpha it has finished
C12_OneRecordPerAlpha ==
    /\ InLoop => HoldsRecords(frame.result, AlphasDone)
    /\ Returned => HoldsRecords(caller.returned, Len(csd.alphas))

\* C12: execute returned the records of two different alphas
C12_Witness ==
    /\ Returned
    /\ Len(csd.alphas) = MaxAlphas
    /\ csd.alphas[1] # csd.alphas[2]
    /\ Len(caller.returned.batches) = MaxAlphas

\* the records of a result: p_succ is 1 - p_err and p_err is a probability
RecordsAreProbabilities(result) ==
    \A i \in 1..Len(result.p_err) :
        /\ result.p_err[i].den > 0
        /\ result.p_succ[i].den = result.p_err[i].den
        /\ result.p_succ[i].num + result.p_err[i].num = result.p_err[i].den
        /\ 0 <= result.p_err[i].num
        /\ result.p_err[i].num <= result.p_err[i].den

\* C13: every record of a result has p_succ = 1 - p_err and 0 <= p_err <= 1,
\* the per-sample probabilities handed to the cost function being in [0, 1]
C13_RecordsSumToOne ==
    /\ RecordsAreProbabilities(frame.result)
    /\ RecordsAreProbabilities(caller.returned)

\* C13: a record whose error probability is strictly between 0 and 1
C13_Witness ==
    /\ Len(caller.returned.p_err) > 0
    /\ caller.returned.p_err[1].num > 0
    /\ caller.returned.p_err[1].num < caller.returned.p_err[1].den


\* the last call of execute, or of the loop over the backends, ended in an
\* exception
Aborted ==
    /\ frame.pc = "ready"
    /\ caller.call \in ExecuteCalls
    /\ caller.error # "none"

\* the results the caller can reach after the call: the lists of the instance
\* and the list the call returned
ResultsHeld == csd.probability_results \o csd.sampling_results \o caller.returned_list

\* C14: after an exception during the i-th alpha the caller still holds the
\* i - 1 records appended before it, and after an exception during a later
\* backend the caller still reaches the results of the backends that had
\* completed
C14_PartialResultsKept ==
    Aborted =>
        /\ Len(caller.returned.alphas) = audit.records_at_abort
        /\ \A i \in 1..Len(audit.collected_at_abort) :
                Counts(ResultsHeld, audit.collected_at_abort[i])

\* C14: execute was left by an exception during its second alpha, after the
\* record of the first was appended
C14_Witness ==
    /\ Aborted
    /\ caller.call = "execute"
    /\ audit.records_at_abort = MaxAlphas - 1

\* C14: the loop over the backends was left by an exception after a backend
\* had completed
C14_LaterBackendFailed ==
    /\ Aborted
    /\ Len(audit.collected_at_abort) > 0


HelperCalls ==
    {"_create_circuit", "_create_engine", "_set_learning_steps",
     "_compute_no_click_probabilities"}

\* the call raised before the engine or the minimizer was used
RaisedAtOnce ==
    /\ caller.error # "none"
    /\ ~audit.engine_invoked
    /\ audit.optimize_calls = 0

\* the cost function never produced a cost from an empty batch
NoCostOfEmptyBatch ==
    /\ Len(csd.batch) = 0 => frame.n_evals = 0 /\ csd.current_p_err = NoPErr
    /\ (caller.call = "_cost_function" /\ Len(csd.batch) = 0 /\ csd.circuit # 0
            /\ csd.run_configuration # None)
        => caller.error = "ZeroDivisionError"

C15_EmptyBatchRaised ==
    /\ caller.call = "_cost_function"
    /\ caller.error = "ZeroDivisionError"


\* the pairs of the three backends with the two measuring types
LabelledPairs == Backends \X MeasuringTypes

\* the last call ended in _set_plot_label
RaisedInLabel == frame.pc = "ready" /\ caller.raised_in = "_set_plot_label"

\* C16: the six pairs have a label each, no two the same, in csd.py and in
\* parallel_experiments.py alike; a run with one of them is not stopped for
\* its label, and a run with any other pair is stopped with a validation
\* error while the result is initialised, before an alpha is started and
\* before a record exists
C16_LabelOrValidationError ==
    /\ \A p \in LabelledPairs :
        /\ SetPlotLabel(p[1], p[2]) # "ValueError"
        /\ SetPlotLabel(p[1], p[2]) = ParallelSetPlotLabel(p[1], p[2])
        /\ \A q \in LabelledPairs : p # q => SetPlotLabel(p[1], p[2]) # SetPlotLabel(q[1], q[2])
    /\ RaisedInLabel =>
        /\ caller.error = "ValueError"
        /\ csd.run_configuration.backend \notin Backends
        /\ audit.alphas_started = 0
        /\ audit.records_at_abort = 0
        /\ caller.returned = NoResult
    /\ InLoop =>
        /\ csd.run_configuration.backend \in Backends
        /\ frame.result.plot_label =
            SetPlotLabel(csd.run_configuration.backend, csd.run_configuration.measuring_type)
        /\ frame.result.plot_label # "ValueError"

\* C16: a run asked for a backend that has no label and was stopped for it
C16_Witness ==
    /\ RaisedInLabel
    /\ csd.run_configuration.backend \in OtherBackends
    /\ csd.engine > 0


C17_SharedWithinExecute ==
    \E u, v \in audit.engine_use : u[1] = v[1] /\ u[3] # v[3]


\* every element of the word is alpha or -alpha
SignedAlphas(codeword) ==
    \A i \in 1..Len(codeword.word) :
        codeword.word[i] = codeword.alpha \/ codeword.word[i] = -codeword.alpha

\* C18: every CodeWord, its word drawn by the constructor or supplied by the
\* caller, holds alpha or -alpha at every position, has size = len(word),
\* and keeps the word of its construction through every operation
C18_WordInvariant ==
    cw.how # "none" =>
        /\ SignedAlphas(cw)
        /\ Size(cw) = Len(cw.word)
        /\ cw.word = cw.original

\* C18: a word of the largest size drawn by the constructor, after an
\* operation on it
C18_Witness ==
    /\ cw.how = "random"
    /\ Len(cw.word) = MaxSize
    /\ cw.last # <<>>
    /\ SignedAlphas(cw)

\* C18: the part that holds for supplied words too: the size is the length
\* of the word held, whatever size the constructor was given, and no
\* operation changes the word
C18_SizeAndWordKept ==
    cw.how # "none" => Size(cw) = Len(cw.word) /\ cw.word = cw.original


\* the step count the run is to make for each alpha
ExpectedLearningSteps ==
    IF csd.run_configuration.backend # "tf" THEN 1
    ELSE IF "steps" \in DOMAIN csd.run_configuration THEN csd.run_configuration.steps
    ELSE csd.steps

\* the batch of the instance is batch_size symbols, each +alpha or -alpha for
\* the alpha being processed
BatchOfCurrentAlpha ==
    /\ csd.alpha_value = csd.alphas[frame.alpha_index]
    /\ Len(csd.batch) = csd.batch_size
    /\ \A i \in 1..Len(csd.batch) :
        csd.batch[i] = csd.alpha_value \/ csd.batch[i] = -csd.alpha_value

\* C19: learning_steps is 1 for a backend other than TensorFlow and, for
\* TensorFlow, the run configuration's steps if it has them and the
\* configured step count otherwise; for each alpha the minimizer has been
\* called once in each iteration begun, on a batch of batch_size symbols
\* +-alpha drawn in that iteration, and the alpha is left after exactly
\* learning_steps iterations
C19_StepLoop ==
    /\ InLoop => frame.learning_steps = ExpectedLearningSteps
    /\ frame.pc = "optimize" =>
        /\ frame.step < frame.learning_steps
        /\ audit.optimize_calls = frame.step + 1
        /\ BatchOfCurrentAlpha
    /\ frame.pc = "step_loop" =>
        /\ frame.step <= frame.learning_steps
        /\ audit.optimize_calls = frame.step
    /\ (frame.pc = "alpha_loop" /\ frame.alpha_index > 0) =>
        audit.optimize_calls = frame.learning_steps

\* C19: a TensorFlow run that took its step count from the instance has
\* finished an alpha after that many iterations
C19_Witness ==
    /\ frame.pc = "alpha_loop"
    /\ frame.alpha_index > 0
    /\ csd.run_configuration.backend = "tf"
    /\ "steps" \notin DOMAIN csd.run_configuration
    /\ audit.optimize_calls = MaxSteps
    /\ Len(csd.batch) = MaxBatch

\* C19: a run on another backend whose run configuration has steps makes one
\* iteration
C19_OneStepOffTensorFlow ==
    /\ frame.pc = "alpha_loop"
    /\ frame.alpha_index > 0
    /\ csd.run_configuration.backend = "fock"
    /\ "steps" \in DOMAIN csd.run_configuration
    /\ csd.run_configuration.steps = 0
    /\ audit.optimize_calls = 1


\* the sum of the numerators of the probabilities p[i] for i in S
RECURSIVE NumeratorsOver(_, _)
NumeratorsOver(S, p) ==
    IF S = {} THEN 0
    ELSE LET i == CHOOSE j \in S : TRUE
         IN  p[i].num + NumeratorsOver(S \ {i}, p)

\* the minimizer has had the cost of the batch it was given computed
CostComputed == frame.pc = "optimize" /\ frame.n_evals > 0

\* the positions of the batch that hold the reference amplitude +alpha
ReferenceSamples == {i \in 1..Len(csd.batch) : csd.batch[i] = csd.alpha_value}

\* C20: the cost computed for a batch is the mean over the batch of the
\* per-sample error, which is prob_click[i] where batch[i] is the reference
\* amplitude +alpha and prob_no_click[i] elsewhere, and prob_click[i] is
\* 1 - prob_no_click[i] for every i
C20_CostIsMeanError ==
    CostComputed =>
        /\ DOMAIN frame.photodetector_prob.prob_click = 1..Len(csd.batch)
        /\ DOMAIN frame.photodetector_prob.prob_no_click = 1..Len(csd.batch)
        /\ \A i \in 1..Len(csd.batch) :
            /\ frame.photodetector_prob.prob_click[i].den = ProbUnits
            /\ frame.photodetector_prob.prob_no_click[i].den = ProbUnits
            /\ frame.photodetector_prob.prob_click[i].num
                 = ProbUnits - frame.photodetector_prob.prob_no_click[i].num
        /\ csd.current_p_err.den = ProbUnits * Len(csd.batch)
        /\ csd.current_p_err.num
             = NumeratorsOver(ReferenceSamples, frame.photodetector_prob.prob_click)
               + NumeratorsOver((1..Len(csd.batch)) \ ReferenceSamples,
                                frame.photodetector_prob.prob_no_click)

\* C20: a cost strictly between 0 and 1 was computed for a batch that holds
\* both +alpha and -alpha, one of the two samples being read in error
C20_Witness ==
    /\ CostComputed
    /\ Len(csd.batch) = 2
    /\ csd.batch[1] = csd.alpha_value
    /\ csd.batch[2] = -csd.alpha_value
    /\ frame.photodetector_prob.prob_click[1].num = ProbUnits
    /\ frame.photodetector_prob.prob_no_click[2].num = 0
    /\ csd.current_p_err = Frac(ProbUnits, 2 * ProbUnits)


\* ------------------------------------------- claims on the run options
\* an engine call on the options object is over, with a result or an exception
CallOver == pc \in {"returned", "raised"}

\* every field of the options object but shots is as the caller built it
OtherFieldsKept ==
    /\ DOMAIN options = DOMAIN handed.options
    /\ \A field \in DOMAIN options \ {"shots"} : options[field] = handed.options[field]

\* C23: an engine call changes nothing in the caller's run options but
\* shots, which is 0 after an exact-probability call and 1 after a sampling
\* call whatever the caller wrote there; a sampling call that is handed the
\* same options object again therefore makes exactly 1 trial
C23_OnlyShotsOverwritten ==
    /\ pc # "idle" => OtherFieldsKept
    /\ (CallOver /\ options.measuring_type = "probabilities") => options.shots = 0
    /\ (CallOver /\ options.measuring_type = "sampling") => options.shots = 1
    /\ (CallOver /\ options.measuring_type = "sampling" /\ handed.calls > 1) =>
        /\ pc = "returned"
        /\ Len(samples) = 1
        /\ run_calls = <<1>>

\* C23: the caller asked for MaxShots > 1 trials, and the second sampling
\* call on the same options object made one
C23_Witness ==
    /\ pc = "returned"
    /\ options.measuring_type = "sampling"
    /\ handed.calls = 2
    /\ handed.options.shots = MaxShots
    /\ MaxShots > 1
    /\ options.shots = 1
    /\ Len(samples) = 1
    /\ options.params = <<1>>

\* C23: an exact-probability call that was asked for MaxShots is over
C23_ExactCallOver ==
    /\ CallOver
    /\ options.measuring_type = "probabilities"
    /\ handed.options.shots = MaxShots
    /\ options.shots = 0


\* ------------------------------------------ claims on the repeated calls
\* the number of backends of the latest of the calls 1..k that asked for the
\* measuring type, 0 when none did
RECURSIVE LatestBackends(_, _, _)
LatestBackends(calls, k, measuring_type) ==
    IF k = 0 THEN 0
    ELSE IF Counts(calls[k].phases, measuring_type) THEN calls[k].backends
    ELSE LatestBackends(calls, k - 1, measuring_type)

\* the sum of the numbers of backends of the calls 1..k that asked for the
\* measuring type
RECURSIVE SumBackends(_, _, _)
SumBackends(calls, k, measuring_type) ==
    IF k = 0 THEN 0
    ELSE (IF Counts(calls[k].phases, measuring_type) THEN calls[k].backends ELSE 0)
         + SumBackends(calls, k - 1, measuring_type)

\* the instance is between two calls, and every call of
\* execute_all_backends_and_measuring_types made on it has returned
AllCallsReturned ==
    /\ frame.pc = "ready"
    /\ audit.all_calls # <<>>
    /\ \A k \in 1..Len(audit.all_calls) : audit.all_calls[k].returned

LastCall == audit.all_calls[Len(audit.all_calls)]

\* C24: over the calls of execute_all_backends_and_measuring_types made on
\* one instance, the probability results held are those of the latest call
\* that asked for probabilities (as many as it had backends), the sampling
\* results held are those of all the calls that asked for sampling (as many
\* as the sum of their backends, the earlier ones first), a call that asked
\* for neither leaves both lists as they were, and the list returned is the
\* probability results followed by the sampling results
C24_ReplacedAndAccumulated ==
    AllCallsReturned =>
        /\ Len(csd.probability_results)
             = LatestBackends(audit.all_calls, Len(audit.all_calls), "probabilities")
        /\ Len(csd.sampling_results)
             = SumBackends(audit.all_calls, Len(audit.all_calls), "sampling")
        /\ SubSeq(csd.sampling_results, 1, Len(LastCall.sampling_before))
             = LastCall.sampling_before
        /\ \A i \in 1..Len(csd.probability_results) :
             csd.probability_results[i].measuring_type = "probabilities"
        /\ \A i \in 1..Len(csd.sampling_results) :
             csd.sampling_results[i].measuring_type = "sampling"
        /\ LastCall.phases = <<>> =>
             /\ csd.probability_results = LastCall.probability_before
             /\ csd.sampling_results = LastCall.sampling_before
        /\ caller.returned_list = csd.probability_results \o csd.sampling_results

\* C24: two calls that asked for sampling on one backend each have
\* returned: the instance holds both sampling results, the earlier first
C24_Witness ==
    /\ AllCallsReturned
    /\ Len(audit.all_calls) = 2
    /\ audit.all_calls[1].backends = 1
    /\ audit.all_calls[1].phases = <<"sampling">>
    /\ LastCall.backends = 1
    /\ LastCall.phases = <<"sampling">>
    /\ Len(LastCall.sampling_before) = 1
    /\ Len(csd.sampling_results) = 2
    /\ csd.sampling_results[1] # csd.sampling_results[2]
    /\ caller.returned_list = csd.sampling_results

\* C24: two calls that asked for probabilities on one backend each have
\* returned: the instance holds the result of the second only
C24_Replaced ==
    /\ AllCallsReturned
    /\ Len(audit.all_calls) = 2
    /\ audit.all_calls[1].backends = 1
    /\ audit.all_calls[1].phases = <<"probabilities">>
    /\ LastCall.backends = 1
    /\ LastCall.phases = <<"probabilities">>
    /\ Len(csd.probability_results) = 1
    /\ csd.probability_results # LastCall.probability_before
    /\ caller.returned_list = csd.probability_results

\* C24: a call that asked for neither measuring type has returned on an
\* instance that held results
C24_NeitherRequested ==
    /\ AllCallsReturned
    /\ Len(audit.all_calls) = 2
    /\ LastCall.phases = <<>>
    /\ LastCall.backends > 0
    /\ csd.probability_results # <<>>
    /\ caller.returned_list = csd.probability_results \o csd.sampling_results


\* C24: a call that was left by an exception has added nothing to the
\* sampling results, and has replaced the probability results only if the
\* exception came after its runs for the probabilities
C24_RaisedCallLeavesSampling ==
    (/\ frame.pc = "ready"
     /\ audit.all_calls # <<>>
     /\ ~LastCall.returned) =>
        /\ caller.error # "none"
        /\ csd.sampling_results = LastCall.sampling_before
        /\ \/ csd.probability_results = LastCall.probability_before
           \/ /\ LastCall.phases = <<"probabilities", "sampling">>
              /\ Len(csd.probability_results) = LastCall.backends


\* ------------------------------------------ claims on the recorded p_err
\* the record of the alpha just finished has been appended to the result
RecordAppended ==
    /\ frame.pc = "alpha_loop"
    /\ frame.alpha_index > 0
    /\ Len(frame.result.p_err) = frame.alpha_index
    /\ Len(frame.result.batches) = frame.alpha_index

\* no cost was evaluated during the alpha just finished
NoEvaluationInAlpha == audit.cost_log.lowest = NoPErr

C25_StaleValueRecorded ==
    /\ RecordAppended
    /\ frame.alpha_index = 2
    /\ NoEvaluationInAlpha
    /\ frame.result.p_err[2] = frame.result.p_err[1]
    /\ frame.result.alphas[1] # frame.result.alphas[2]

\* C25: the last evaluation of the alpha was made in an earlier step than
\* the last, on another batch than the one recorded
C25_EarlierStepRecorded ==
    /\ RecordAppended
    /\ ~NoEvaluationInAlpha
    /\ audit.cost_log.at[3] < frame.learning_steps
    /\ audit.cost_log.batch # frame.result.batches[frame.alpha_index]

====
